---- MODULE Spec2Model ----
(***************************************************************************)
(* Model of the supplier-sheet standardization engine (src/logic.py):      *)
(* TextUtils, ColumnMatcher and DataProcessor.                             *)
(*                                                                         *)
(* Specifications: SpecScore (score_match), SpecMatch (find_best_match),   *)
(* SpecPipeline (process_files on a batch of files), SpecDimension         *)
(* (normalize_dimension, process_size_base_height and                      *)
(* calculate_area_from_size), SpecDates (process_dates and                 *)
(* deal_with_literal_dates on one record) and SpecDuration                 *)
(* (calculate_no_of_months).                                               *)
(*                                                                         *)
(* Text is modelled at character level: a string is a sequence of          *)
(* one-character atoms.  The atom "a_acute" stands for an accented a,      *)
(* which NFKD + ascii/ignore folds to "a".                                 *)
(***************************************************************************)
EXTENDS Integers, Sequences, FiniteSets, TLC

(***************************************************************************)
(* Bounds of the explored input space.                                     *)
(***************************************************************************)
MaxColLen == 3
MaxTerms == 2
MaxCols == 3
MaxPre == 2
MaxRows == 2
MaxFiles == 2
MaxDimLen == 3
MaxSizeLen == 5
MaxYears == 2

(***************************************************************************)
(* Generic helpers.                                                        *)
(***************************************************************************)
StrOver(alphabet, n) == UNION {[1..k -> alphabet] : k \in 0..n}

SetMax(S) == CHOOSE x \in S : \A y \in S : y <= x

Max2(a, b) == IF a >= b THEN a ELSE b

(***************************************************************************)
(* Characters.                                                             *)
(***************************************************************************)
UpperChars == <<"A", "B", "C", "D", "E", "F", "G", "H", "I", "J", "K", "L", "M",
               "N", "O", "P", "Q", "R", "S", "T", "U", "V", "W", "X", "Y", "Z">>

LowerChars == <<"a", "b", "c", "d", "e", "f", "g", "h", "i", "j", "k", "l", "m",
               "n", "o", "p", "q", "r", "s", "t", "u", "v", "w", "x", "y", "z">>

\* str.lower() on one character
LowerChar(c) ==
    IF \E i \in 1..Len(UpperChars) : UpperChars[i] = c
    THEN LowerChars[CHOOSE i \in 1..Len(UpperChars) : UpperChars[i] = c]
    ELSE c

IsSpace(c) == c \in {" ", "\n"}

\* \w of the regular expressions: letters, digits and underscore
IsWord(c) == c \notin {" ", "\n", "/", "-", ":", ".", "&", "=", "(", ")", "\"", ","}

\* unicodedata.normalize('NFKD', .).encode('ascii', 'ignore'): the accent is dropped
AsciiFold(c) == IF c = "a_acute" THEN <<"a">> ELSE <<c>>

(***************************************************************************)
(* str methods.                                                            *)
(***************************************************************************)
Lower(s) == [i \in 1..Len(s) |-> LowerChar(s[i])]

RECURSIVE LStrip(_)
LStrip(s) == IF s = <<>> THEN s
             ELSE IF IsSpace(Head(s)) THEN LStrip(Tail(s)) ELSE s

RECURSIVE RStrip(_)
RStrip(s) == IF s = <<>> THEN s
             ELSE IF IsSpace(s[Len(s)]) THEN RStrip(SubSeq(s, 1, Len(s) - 1)) ELSE s

Strip(s) == RStrip(LStrip(s))

RECURSIVE FoldAll(_)
FoldAll(s) == IF s = <<>> THEN <<>> ELSE AsciiFold(Head(s)) \o FoldAll(Tail(s))

ReplaceChar(s, from, to) == [i \in 1..Len(s) |-> IF s[i] = from THEN to ELSE s[i]]

\* re.sub(r"\s+", " ", text)
RECURSIVE CollapseSpaces(_)
CollapseSpaces(s) ==
    IF s = <<>> THEN <<>>
    ELSE IF IsSpace(Head(s))
         THEN <<" ">> \o CollapseSpaces(LStrip(Tail(s)))
         ELSE <<Head(s)>> \o CollapseSpaces(Tail(s))

StartsWith(s, p) == Len(p) <= Len(s) /\ SubSeq(s, 1, Len(p)) = p

\* p in s
IsSubstring(p, s) ==
    \E i \in 0..(Len(s) - Len(p)) : SubSeq(s, i + 1, i + Len(p)) = p

(***************************************************************************)
(* TextUtils.                                                              *)
(***************************************************************************)
normalize_text(text) ==
    LET lowered  == Strip(Lower(text))
        folded   == FoldAll(lowered)
        replaced == ReplaceChar(ReplaceChar(folded, "\n", " "), "/", " ")
    IN  CollapseSpaces(replaced)

\* re.search(r'(?<!\w)' + re.escape(phrase) + r'(?!\w)', text)
contains_whole_word(text, phrase) ==
    LET t == normalize_text(text)
        p == normalize_text(phrase)
    IN  \E i \in 0..(Len(t) - Len(p)) :
           /\ SubSeq(t, i + 1, i + Len(p)) = p
           /\ (i = 0 \/ ~IsWord(t[i]))
           /\ (i + Len(p) = Len(t) \/ ~IsWord(t[i + Len(p) + 1]))

(***************************************************************************)
(* ColumnMatcher.score_match.                                              *)
(***************************************************************************)
PriorityStep_Additive(txt, p, score) ==
    LET p_n == normalize_text(p)
    IN  IF txt = p_n THEN score + 100
        ELSE IF contains_whole_word(txt, p_n) THEN score + 90
        ELSE IF IsSubstring(p_n, txt) THEN score + 80
        ELSE score

PriorityStep(txt, p, score) ==
    LET p_n == normalize_text(p)
    IN  IF txt = p_n THEN Max2(score, 100)
        ELSE IF contains_whole_word(txt, p_n) THEN Max2(score, 90)
        ELSE IF IsSubstring(p_n, txt) THEN Max2(score, 80)
        ELSE score

KeywordStep(txt, k, score) ==
    LET k_n == normalize_text(k)
    IN  IF txt = k_n THEN Max2(score, 70)
        ELSE IF contains_whole_word(txt, k_n) THEN Max2(score, 60)
        ELSE IF IsSubstring(k_n, txt) THEN Max2(score, 40)
        ELSE score

AvoidStep_Capped(txt, a, score) ==
    LET a_n == normalize_text(a)
    IN  IF contains_whole_word(txt, a_n) \/ IsSubstring(a_n, txt)
        THEN Max2(score - 50, 0)
        ELSE score

AvoidStep(txt, a, score) ==
    LET a_n == normalize_text(a)
    IN  IF contains_whole_word(txt, a_n) \/ IsSubstring(a_n, txt)
        THEN score - 50
        ELSE score

RECURSIVE PriorityLoop(_, _, _)
PriorityLoop(txt, ps, score) ==
    IF ps = <<>> THEN score
    ELSE PriorityLoop(txt, Tail(ps), PriorityStep(txt, Head(ps), score))

RECURSIVE KeywordLoop(_, _, _)
KeywordLoop(txt, ks, score) ==
    IF ks = <<>> THEN score
    ELSE KeywordLoop(txt, Tail(ks), KeywordStep(txt, Head(ks), score))

RECURSIVE AvoidLoop(_, _, _)
AvoidLoop(txt, as, score) ==
    IF as = <<>> THEN score
    ELSE AvoidLoop(txt, Tail(as), AvoidStep(txt, Head(as), score))

score_match(c, kws, prio, avd) ==
    LET txt == normalize_text(c)
    IN  AvoidLoop(txt, avd, KeywordLoop(txt, kws, PriorityLoop(txt, prio, 0)))

(***************************************************************************)
(* ColumnMatcher.find_best_match.                                          *)
(*                                                                         *)
(* A candidate is a pair <<column, score>>.  list.sort is stable; it is    *)
(* modelled by a stable insertion sort on the key (-score, len(str(col))). *)
(***************************************************************************)
None == <<>>
Some(x) == <<x>>

SortKeyLE_ByScoreOnly(x, y) == x[2] >= y[2]

\* key(x) <= key(y) for key = (-x[1], len(str(x[0])))
SortKeyLE(x, y) ==
    \/ x[2] > y[2]
    \/ (x[2] = y[2] /\ Len(x[1]) <= Len(y[1]))

\* insert x behind every element whose key is <= the key of x
RECURSIVE InsertSorted(_, _)
InsertSorted(sorted, x) ==
    IF sorted = <<>> THEN <<x>>
    ELSE IF SortKeyLE(Head(sorted), x)
         THEN <<Head(sorted)>> \o InsertSorted(Tail(sorted), x)
         ELSE <<x>> \o sorted

RECURSIVE SortScored(_)
SortScored(s) ==
    IF s = <<>> THEN <<>>
    ELSE InsertSorted(SortScored(SubSeq(s, 1, Len(s) - 1)), s[Len(s)])

KeepCandidate_NonNegative(sc) == sc >= 0

\* the filter of the list comprehension: score_match(...) > 0
KeepCandidate(sc) == sc > 0

RECURSIVE ScoredCandidates(_, _, _, _)
ScoredCandidates(cols, kws, prio, avd) ==
    IF cols = <<>> THEN <<>>
    ELSE LET c  == Head(cols)
             sc == score_match(c, kws, prio, avd)
         IN  (IF KeepCandidate(sc) THEN << <<c, sc>> >> ELSE <<>>)
                \o ScoredCandidates(Tail(cols), kws, prio, avd)

\* returns <<best, scored>>; best is None or Some(column)
find_best_match(cols, kws, prio, avd) ==
    LET scored == ScoredCandidates(cols, kws, prio, avd)
    IN  IF scored = <<>> THEN <<None, <<>> >>
        ELSE LET sorted == SortScored(scored)
             IN  <<Some(sorted[1][1]), sorted>>

(***************************************************************************)
(* DataProcessor: class constants.                                         *)
(***************************************************************************)
HYPERLINK_HEADERS == {
    <<"p", "o", "z", "a">>,
    <<"p", "h", "o", "t", "o">>,
    <<"s", "c", "h", "i", "t", "a">>,
    <<"l", "i", "n", "k", " ", "p", "o", "z", "a">>,
    <<"f", "o", "t", "o">>,
    <<"l", "i", "n", "k", " ", "f", "o", "t", "o">>,
    <<"i", "m", "a", "g", "i", "n", "i">>,
    <<"p", "i", "c", "t", "u", "r", "e">>,
    <<"c", "a", "t", "a", "l", "o", "g">>,
    <<"p", "h", "o", "t", "o", "/", "v", "i", "d", "e", "o">>,
    <<"p", "h", "o", "t", "o", " ", "&", " ", "m", "a", "p">>,
    <<"c", "o", "d">>,
    <<"p", "a", "g", "i", "n", "a", " ", "p", "r", "e", "z", "e", "n", "t", "a", "r", "e">>,
    <<"c", "o", "d", "e">>,
    <<"p", "o", "z", "a", " ", "l", "o", "c", "a", "t", "i", "e">>,
    <<"i", "m", "a", "g", "i", "n", "e">>,
    <<"i", "m", "a", "g", "i", "n", "i", " ", "1">>,
    <<"l", "i", "n", "k", " ", "p", "o", "z", "a", " ", "s", "u", "p", "o", "r", "t", " ", "p", "u", "b", "l", "i", "c", "i", "t", "a", "r">>,
    <<"f", "o", "t", "o", " ", "l", "o", "c", "a", "t", "i", "e">>,
    <<"a", "d", "r", "e", "s", "a">>,
    <<"s", "i", "t", "e">> }

TECH_DETAILS_HEADERS == {
    <<"s", "c", "h", "i", "t", "a">>,
    <<"f", "o", "t", "o", " ", "s", "c", "h", "i", "t", "a">>,
    <<"p", "r", "o", "d", "u", "c", "t", "i", "o", "n", " ", "s", "k", "e", "t", "c", "h">>,
    <<"s", "c", "h", "i", "t", "a", " ", "p", "r", "o", "d", "u", "c", "t", "i", "e">>,
    <<"s", "c", "h", "i", "t", "a", " ", "d", "e", " ", "p", "r", "o", "d", "u", "c", "t", "i", "e", " ", "p", "e", "n", "t", "r", "u", " ", "m", "a", "t", "e", "r", "i", "a", "l", " ", "p", "u", "b", "l", "i", "c", "i", "t", "a", "r">>,
    <<"l", "i", "n", "k", " ", "s", "c", "h", "i", "t", "a", " ", "p", "r", "o", "d", "u", "c", "t", "i", "e">>,
    <<"t", "e", "c", "h", "n", "i", "c", "a", "l", " ", "d", "e", "t", "a", "i", "l", "s">> }

HTTP == <<"h", "t", "t", "p", ":", "/", "/">>
HTTPS == <<"h", "t", "t", "p", "s", ":", "/", "/">>
WWW == <<"w", "w", "w", ".">>

\* URL_RE = re.compile(r"^(?:https?://|www\.)", re.IGNORECASE), used with .match
URL_RE_match(s) ==
    LET l == Lower(s)
    IN  StartsWith(l, HTTP) \/ StartsWith(l, HTTPS) \/ StartsWith(l, WWW)

HYPERLINK_OPEN == <<"h", "y", "p", "e", "r", "l", "i", "n", "k", "(">>

\* index of the first double quote of s, 0 when there is none
FirstQuote(s) ==
    IF \E i \in 1..Len(s) : s[i] = "\""
    THEN CHOOSE i \in 1..Len(s) : s[i] = "\"" /\ \A j \in 1..(i - 1) : s[j] # "\""
    ELSE 0

\* HYPERLINK_FORMULA_RE = re.compile(r'^\s*=\s*HYPERLINK\(\s*"([^"]+)"', re.IGNORECASE)
\* .match(v): None, or Some(group 1)
HYPERLINK_FORMULA_RE_match(v) ==
    LET s1 == LStrip(v)
    IN  IF s1 = <<>> \/ Head(s1) # "=" THEN None
        ELSE LET s2 == LStrip(Tail(s1))
             IN  IF ~StartsWith(Lower(s2), HYPERLINK_OPEN) THEN None
                 ELSE LET s3 == LStrip(SubSeq(s2, Len(HYPERLINK_OPEN) + 1, Len(s2)))
                      IN  IF s3 = <<>> \/ Head(s3) # "\"" THEN None
                          ELSE LET r == Tail(s3)
                                   q == FirstQuote(r)
                               IN  IF q >= 2 THEN Some(SubSeq(r, 1, q - 1)) ELSE None

(***************************************************************************)
(* Cell values, worksheets and input files.                                *)
(*                                                                         *)
(* A value is NaN (missing), a str or a number.  A worksheet cell has the  *)
(* cached value v that pandas reads, the content raw that openpyxl reads   *)
(* with data_only=False (the formula text for a formula cell) and the      *)
(* native hyperlink: None, or Some(target).                                *)
(***************************************************************************)
NaN == [t |-> "nan", s |-> <<>>]
Str(s) == [t |-> "str", s |-> s]
Num(s) == [t |-> "num", s |-> s]
\* Python's None; a number carries its str() form
PyNone == [t |-> "none", s |-> <<>>]

IsStr(v) == v.t = "str"
\* pd.isna(v)
IsNa(v) == v.t \in {"nan", "none"}

PlainCell(v) == [v |-> v, raw |-> v, link |-> None]
LinkedCell(v, target) == [v |-> v, raw |-> v, link |-> Some(target)]
FormulaCell(v, formula) == [v |-> v, raw |-> Str(formula), link |-> None]
\* a formula cell that also has a native hyperlink; a hyperlink without a
\* target (a link to a place in the workbook) has the target <<>>
LinkedFormulaCell(v, formula, target) == [v |-> v, raw |-> Str(formula), link |-> Some(target)]

HeaderThreshold == 9

UNNAMED == <<"U", "n", "n", "a", "m", "e", "d", ":", " ">>

\* the number of columns of the sheet
GridWidth(file) == IF file.cells = <<>> THEN 0 ELSE Len(file.cells[1])

Digits == <<"0", "1", "2", "3", "4", "5", "6", "7", "8", "9">>

\* str(n) for n >= 0
RECURSIVE IntStr(_)
IntStr(n) == IF n < 10 THEN <<Digits[n + 1]>>
             ELSE IntStr(n \div 10) \o <<Digits[(n % 10) + 1]>>

\* the label pandas gives a header cell: its text, "Unnamed: <pos>" when empty
ColumnLabel(v, pos) == IF IsNa(v) THEN UNNAMED \o IntStr(pos) ELSE v.s

\* position of the last non-empty cell of a row of cells, 0 for an empty row
LastValueCol(cells) ==
    IF \E c \in 1..Len(cells) : ~IsNa(cells[c].v)
    THEN CHOOSE c \in 1..Len(cells) :
            ~IsNa(cells[c].v) /\ \A e \in (c + 1)..Len(cells) : IsNa(cells[e].v)
    ELSE 0

\* pd.read_excel(read_target, sheet_name=0, header=None): the grid of values;
\* the reader drops the empty rows at the bottom and the empty columns at the
\* right of the sheet
ReadRaw(file) ==
    LET used    == {r \in 1..Len(file.cells) : LastValueCol(file.cells[r]) > 0}
        lastRow == IF used = {} THEN 0 ELSE CHOOSE r \in used : \A q \in used : q <= r
        width   == IF used = {} THEN 0
                   ELSE LastValueCol(file.cells[
                            CHOOSE r \in used :
                               \A q \in used : LastValueCol(file.cells[q]) <= LastValueCol(file.cells[r])])
    IN  [r \in 1..lastRow |-> [c \in 1..width |-> file.cells[r][c].v]]

\* row.count(): the number of non-NaN cells
RowCount(row) == Cardinality({c \in 1..Len(row) : ~IsNa(row[c])})

RowQualifies_Strict(row) == RowCount(row) > HeaderThreshold

RowQualifies(row) == RowCount(row) >= HeaderThreshold

\* the header loop from row i (0-based) on: None, or Some(first qualifying index)
RECURSIVE LocateHeaderFrom(_, _)
LocateHeaderFrom(raw, i) ==
    IF i >= Len(raw) THEN None
    ELSE IF RowQualifies(raw[i + 1]) THEN Some(i)
    ELSE LocateHeaderFrom(raw, i + 1)

\* pd.read_excel(read_target, sheet_name=0, header=h)
ReadWithHeader(file, h) ==
    LET raw == ReadRaw(file)
    IN  [columns |-> [c \in 1..Len(raw[h + 1]) |-> ColumnLabel(raw[h + 1][c], c - 1)],
         rows    |-> SubSeq(raw, h + 2, Len(raw))]

\* the url of a cell when the formula is looked at before the native hyperlink
CellUrl_FormulaFirst(cell) ==
    LET m == IF IsStr(cell.raw) THEN HYPERLINK_FORMULA_RE_match(cell.raw.s) ELSE None
    IN  IF m # None THEN m
        ELSE IF cell.link # None /\ cell.link[1] # <<>> THEN cell.link
        ELSE None

\* the url _extract_hyperlinks finds in one cell: None or Some(url)
CellUrl(cell) ==
    IF cell.link # None /\ cell.link[1] # <<>> THEN cell.link
    ELSE IF IsStr(cell.raw) THEN HYPERLINK_FORMULA_RE_match(cell.raw.s)
    ELSE None

\* _extract_hyperlinks: the map from zero-based (row, column) to url
extract_hyperlinks(file) ==
    LET P == {p \in (0..(Len(file.cells) - 1)) \X (0..(GridWidth(file) - 1)) :
                 CellUrl(file.cells[p[1] + 1][p[2] + 1]) # None}
    IN  [p \in P |-> CellUrl(file.cells[p[1] + 1][p[2] + 1])[1]]

EmptyMap == [p \in {} |-> <<>>]

\* the zero-based (r, c) of the cells in the order the two loops visit them
iter_cells(file) ==
    [n \in 1..(Len(file.cells) * GridWidth(file)) |->
        <<(n - 1) \div GridWidth(file), (n - 1) % GridWidth(file)>>]

\* the keys of links in the order of their insertion
LinkKeys(file) ==
    LET HasUrl(p) == CellUrl(file.cells[p[1] + 1][p[2] + 1]) # None
    IN  SelectSeq(iter_cells(file), HasUrl)

\* hyperlinks.get((r, c)): None or Some(url)
MapGet(links, r, c) == IF <<r, c>> \in DOMAIN links THEN Some(links[<<r, c>>]) ELSE None

(***************************************************************************)
(* The stream of an input file: its position, "start" or "moved" (past the *)
(* start), and the operations made on it, each with the position it was    *)
(* made at.  A path has no position: every read opens the file anew.       *)
(***************************************************************************)
NoStream == [pos |-> "start", ops |-> <<>>]

\* an operation: its name, the header argument of read_excel, the position
StreamOp(op, header, at) == [op |-> op, header |-> header, at |-> at]

\* the positions a caller can hand the file over at
StartPositions(file) == IF file.seekable THEN {"start", "moved"} ELSE {"start"}

Seek_Skipped(file, st) == st

\* if hasattr(read_target, "seek"): read_target.seek(0)
Seek(file, st) ==
    IF file.seekable
    THEN [pos |-> "start", ops |-> Append(st.ops, StreamOp("seek", None, st.pos))]
    ELSE st

\* what pd.read_excel(read_target, sheet_name=0, header=header) does to the
\* stream, whether it returns or raises
read_excel(file, st, header) ==
    [pos |-> IF file.seekable THEN "moved" ELSE st.pos,
     ops |-> Append(st.ops, StreamOp("read_excel", header, st.pos))]

\* what load_workbook(file_input, data_only=False, read_only=False) does to
\* the stream, whether it returns or raises
load_workbook(file, st) ==
    [pos |-> IF file.seekable THEN "moved" ELSE st.pos,
     ops |-> Append(st.ops, StreamOp("load_workbook", None, st.pos))]

(***************************************************************************)
(* pandas DataFrame: column labels, row labels and one value sequence per  *)
(* row label, aligned with the columns.                                    *)
(***************************************************************************)
EmptyDF == [cols |-> <<>>, idx |-> <<>>, data |-> <<>>]

HasCol(d, name) == \E k \in 1..Len(d.cols) : d.cols[k] = name

ColPos(d, name) == CHOOSE k \in 1..Len(d.cols) : d.cols[k] = name

HasLabel(d, label) == \E k \in 1..Len(d.idx) : d.idx[k] = label

LabelPos(d, label) == CHOOSE k \in 1..Len(d.idx) : d.idx[k] = label

\* DataFrame.empty
IsEmptyDF(d) == Len(d.cols) = 0 \/ Len(d.idx) = 0

\* d[name] = column, given as a function from row position to value
PutColumn(d, name, column) ==
    IF HasCol(d, name)
    THEN [d EXCEPT !.data = [k \in 1..Len(d.idx) |->
                                [d.data[k] EXCEPT ![ColPos(d, name)] = column[k]]]]
    ELSE [d EXCEPT !.cols = Append(d.cols, name),
                   !.data = [k \in 1..Len(d.idx) |-> Append(d.data[k], column[k])]]

\* d[name] = scalar: every existing row gets the scalar
SetScalarColumn(d, name, v) == PutColumn(d, name, [k \in 1..Len(d.idx) |-> v])

\* _ensure_valid_index: a frame without rows takes the index of a non-empty
\* Series assigned to it, its existing columns are filled with NaN
EnsureValidIndex(d, series) ==
    IF Len(d.idx) = 0 /\ Len(series) > 0
    THEN [cols |-> d.cols,
          idx  |-> [k \in 1..Len(series) |-> k - 1],
          data |-> [k \in 1..Len(series) |-> [j \in 1..Len(d.cols) |-> NaN]]]
    ELSE d

\* d[name] = series, a Series with the labels 0 .. Len(series)-1, aligned on
\* the row labels
SetSeriesColumn(d, name, series) ==
    LET e == EnsureValidIndex(d, series)
    IN  PutColumn(e, name,
                  [k \in 1..Len(e.idx) |->
                      IF e.idx[k] + 1 \in 1..Len(series) THEN series[e.idx[k] + 1] ELSE NaN])

\* d.at[label, name] = v, for an existing column; a missing row label is
\* appended with NaN in the other columns
AtSet(d, label, name, v) ==
    IF HasLabel(d, label)
    THEN [d EXCEPT !.data[LabelPos(d, label)][ColPos(d, name)] = v]
    ELSE [d EXCEPT !.idx = Append(d.idx, label),
                   !.data = Append(d.data,
                               [j \in 1..Len(d.cols) |->
                                   IF j = ColPos(d, name) THEN v ELSE NaN])]

\* d.at[label, name] of an existing row
AtGet(d, label, name) == d.data[LabelPos(d, label)][ColPos(d, name)]

(***************************************************************************)
(* DataProcessor.extract_standardized_dataframe, steps 4 and 5.            *)
(***************************************************************************)
PHOTO_LINK == <<"P", "h", "o", "t", "o", " ", "L", "i", "n", "k">>
TECH_DETAILS == <<"T", "e", "c", "h", " ", "D", "e", "t", "a", "i", "l", "s">>
SOURCE_FILE == <<"_", "_", "s", "o", "u", "r", "c", "e", "_", "f", "i", "l", "e">>

\* df[best]: the values of the column labelled best
ColumnOf(df, label) ==
    LET pos == CHOOSE c \in 1..Len(df.columns) : df.columns[c] = label
    IN  [r \in 1..Len(df.rows) |-> df.rows[r][pos]]

\* "if best:" holds for a column label that is not the empty string
Truthy(best) == best # None /\ best[1] # <<>>

IsLinkField(name) == normalize_text(name) \in {normalize_text(PHOTO_LINK), normalize_text(TECH_DETAILS)}

\* 4a) the loop over self.groups.items()
RECURSIVE CopyGroups(_, _, _)
CopyGroups(extracted, grps, df) ==
    IF grps = <<>> THEN extracted
    ELSE LET g    == Head(grps)
             best == find_best_match(df.columns, g.keywords, g.priority, g.avoid)[1]
             next == IF IsLinkField(g.name) THEN extracted
                     ELSE IF Truthy(best)
                          THEN SetSeriesColumn(extracted, g.name, ColumnOf(df, best[1]))
                          ELSE SetScalarColumn(extracted, g.name, Str(<<>>))
         IN  CopyGroups(next, Tail(grps), df)

\* step 4 up to the end of 4a
BuildExtracted(grps, df) ==
    CopyGroups(SetScalarColumn(SetScalarColumn(EmptyDF, PHOTO_LINK, Str(<<>>)),
                               TECH_DETAILS, Str(<<>>)),
               grps, df)

\* 4b) zero-based positions of the columns whose normalized label is in headers
CandidateIndices(df, headers) ==
    LET IsCand(c) == normalize_text(df.columns[c + 1]) \in headers
    IN  SelectSeq([c \in 1..Len(df.columns) |-> c - 1], IsCand)

\* the first loop of 4c: the recorded targets of the candidates, in order
RECURSIVE FoundByMap(_, _, _)
FoundByMap(links, xl_row0, cands) ==
    IF cands = <<>> THEN <<>>
    ELSE LET url == MapGet(links, xl_row0, Head(cands))
         IN  (IF url # None /\ url[1] # <<>> THEN <<url[1]>> ELSE <<>>)
                \o FoundByMap(links, xl_row0, Tail(cands))

UrlFromText_NoPrefix(text) == Strip(text)

\* url = val.strip(); "http://" is put before a url that starts with www.
UrlFromText(text) ==
    LET url == Strip(text)
    IN  IF StartsWith(Lower(url), WWW) THEN HTTP \o url ELSE url

\* the second loop of 4c: the visible urls of the candidates, in order
RECURSIVE FoundByText(_, _, _)
FoundByText(df, row_idx, cands) ==
    IF cands = <<>> THEN <<>>
    ELSE LET val == df.rows[row_idx + 1][Head(cands) + 1]
         IN  (IF IsStr(val) /\ URL_RE_match(Strip(val.s))
              THEN <<UrlFromText(val.s)>> ELSE <<>>)
                \o FoundByText(df, row_idx, Tail(cands))

FoundLinks_TextFirst(links, df, h, row_idx, cands) ==
    LET byText == FoundByText(df, row_idx, cands)
    IN  IF byText = <<>> THEN FoundByMap(links, h + 1 + row_idx, cands) ELSE byText

\* found_photo / found_tech of one data row
FoundLinks(links, df, h, row_idx, cands) ==
    LET byMap == FoundByMap(links, h + 1 + row_idx, cands)
    IN  IF byMap = <<>> THEN FoundByText(df, row_idx, cands) ELSE byMap

FillField(extracted, row_idx, name, found) ==
    IF found # <<>> THEN AtSet(extracted, row_idx, name, Str(found[1])) ELSE extracted

\* 4c) the loop over range(len(df)), from row_idx on
RECURSIVE FillLinksFrom(_, _, _, _, _)
FillLinksFrom(extracted, links, df, h, row_idx) ==
    IF row_idx >= Len(df.rows) THEN extracted
    ELSE LET photo == FoundLinks(links, df, h, row_idx, CandidateIndices(df, HYPERLINK_HEADERS))
             tech  == FoundLinks(links, df, h, row_idx, CandidateIndices(df, TECH_DETAILS_HEADERS))
             e1    == FillField(extracted, row_idx, PHOTO_LINK, photo)
             e2    == FillField(e1, row_idx, TECH_DETAILS, tech)
         IN  FillLinksFrom(e2, links, df, h, row_idx + 1)

\* 4b, 4c and 5
FillLinksAndSource(extracted, links, df, h, file_name) ==
    SetScalarColumn(FillLinksFrom(extracted, links, df, h, 0), SOURCE_FILE, Str(file_name))

(***************************************************************************)
(* DataProcessor.process_files: concatenation and pruning.                 *)
(***************************************************************************)
\* the columns of pd.concat: in order of first appearance
RECURSIVE ConcatCols(_)
ConcatCols(frames) ==
    IF frames = <<>> THEN <<>>
    ELSE LET before == ConcatCols(SubSeq(frames, 1, Len(frames) - 1))
             last   == frames[Len(frames)]
             IsNew(name) == \A k \in 1..Len(before) : before[k] # name
         IN  before \o SelectSeq(last.cols, IsNew)

RECURSIVE ConcatRows(_, _)
ConcatRows(frames, cols) ==
    IF frames = <<>> THEN <<>>
    ELSE LET f == Head(frames)
         IN  [k \in 1..Len(f.idx) |->
                [j \in 1..Len(cols) |->
                    IF HasCol(f, cols[j]) THEN f.data[k][ColPos(f, cols[j])] ELSE NaN]]
             \o ConcatRows(Tail(frames), cols)

\* pd.concat of the frames, the last one first
Concat_Reversed(frames) ==
    LET rev  == [k \in 1..Len(frames) |-> frames[Len(frames) + 1 - k]]
        cols == ConcatCols(rev)
        rows == ConcatRows(rev, cols)
    IN  [cols |-> cols, idx |-> [k \in 1..Len(rows) |-> k - 1], data |-> rows]

\* pd.concat(all_data, ignore_index=True)
Concat(frames) ==
    LET cols == ConcatCols(frames)
        rows == ConcatRows(frames, cols)
    IN  [cols |-> cols, idx |-> [k \in 1..Len(rows) |-> k - 1], data |-> rows]

\* the rows of d at the positions kept (ascending), labels kept
FilterRows(d, kept) ==
    [cols |-> d.cols,
     idx  |-> [n \in 1..Len(kept) |-> d.idx[kept[n]]],
     data |-> [n \in 1..Len(kept) |-> d.data[kept[n]]]]

RowPositions(d) == [k \in 1..Len(d.idx) |-> k]

\* final_df.dropna(how="all")
DropAllNa(d) ==
    LET Keep(k) == \E j \in 1..Len(d.cols) : ~IsNa(d.data[k][j])
    IN  FilterRows(d, SelectSeq(RowPositions(d), Keep))

\* a str that matches r'^\s*$'
IsBlankStr(v) == IsStr(v) /\ \A i \in 1..Len(v.s) : IsSpace(v.s[i])

\* remove_empty_columns without the replacement of whitespace-only text
remove_empty_columns_KeepWhitespace(d, excepted) ==
    LET Keep(k) == \E j \in 1..Len(d.cols) : d.cols[j] # excepted /\ ~IsNa(d.data[k][j])
    IN  FilterRows(d, SelectSeq(RowPositions(d), Keep))

\* remove_empty_columns(df, excepted_columns)
remove_empty_columns(d, excepted) ==
    LET r == [d EXCEPT !.data = [k \in 1..Len(d.idx) |->
                                    [j \in 1..Len(d.cols) |->
                                        IF IsBlankStr(d.data[k][j]) THEN NaN ELSE d.data[k][j]]]]
        Keep(k) == \E j \in 1..Len(r.cols) : r.cols[j] # excepted /\ ~IsNa(r.data[k][j])
    IN  FilterRows(r, SelectSeq(RowPositions(r), Keep))

(***************************************************************************)
(* DataProcessor: dimensions.                                              *)
(***************************************************************************)
\* str(value)
PyStr(v) == IF v.t = "nan" THEN <<"n", "a", "n">>
            ELSE IF v.t = "none" THEN <<"N", "o", "n", "e">>
            ELSE v.s

\* truthiness of a str-or-None value
NonEmpty(v) == v.t = "str" /\ v.s # <<>>

IsDigit(c) == \E i \in 1..Len(Digits) : Digits[i] = c

\* str.replace(c, "")
RemoveChar(s, c) == SelectSeq(s, LAMBDA d : d # c)

\* re.sub(r"\s*m", "", value): every "m" goes, with the whitespace before it
RECURSIVE SubSpacesM(_)
SubSpacesM(s) ==
    IF s = <<>> THEN <<>>
    ELSE LET rest == LStrip(s)
         IN  IF rest # <<>> /\ Head(rest) = "m"
             THEN SubSpacesM(Tail(rest))
             ELSE <<Head(s)>> \o SubSpacesM(Tail(s))

normalize_dimension(value) ==
    IF IsNa(value) \/ Strip(PyStr(value)) = <<>>
    THEN PyNone
    ELSE Str(SubSpacesM(ReplaceChar(Lower(Strip(PyStr(value))), ",", ".")))

IsSeparator(c) == c \in {"x", "X"}

\* re.split(r"[x]", size)
RECURSIVE SplitOnX_LowerOnly(_)
SplitOnX_LowerOnly(s) ==
    IF \A i \in 1..Len(s) : s[i] # "x" THEN <<s>>
    ELSE LET p == CHOOSE i \in 1..Len(s) :
                     s[i] = "x" /\ \A j \in 1..(i - 1) : s[j] # "x"
         IN  <<SubSeq(s, 1, p - 1)>> \o SplitOnX_LowerOnly(SubSeq(s, p + 1, Len(s)))

\* re.split(r"[xX]", size)
RECURSIVE SplitOnX(_)
SplitOnX(s) ==
    IF \A i \in 1..Len(s) : ~IsSeparator(s[i]) THEN <<s>>
    ELSE LET p == CHOOSE i \in 1..Len(s) :
                     IsSeparator(s[i]) /\ \A j \in 1..(i - 1) : ~IsSeparator(s[j])
         IN  <<SubSeq(s, 1, p - 1)>> \o SplitOnX(SubSeq(s, p + 1, Len(s)))

\* f"{v}m" if v else None
WithUnit(v) == IF NonEmpty(v) THEN Str(v.s \o <<"m">>) ELSE PyNone

\* f"{base}m x {height}m"
SizeOf(base, height) == base.s \o <<"m", " ", "x", " ">> \o height.s \o <<"m">>

\* process_size_base_height(row): row.get of a missing key is None
process_size_base_height(row) ==
    LET base0   == normalize_dimension(row.Base)
        height0 == normalize_dimension(row.Height)
        size0   == IF IsNa(row.Size) THEN <<>> ELSE PyStr(row.Size)
        parts   == SplitOnX(size0)
        split   == Strip(size0) # <<>> /\ Len(parts) = 2
        base    == IF split THEN normalize_dimension(Str(parts[1])) ELSE base0
        height  == IF split THEN normalize_dimension(Str(parts[2])) ELSE height0
        size    == IF Strip(size0) = <<>> /\ NonEmpty(base0) /\ NonEmpty(height0)
                   THEN SizeOf(base0, height0)
                   ELSE size0
    IN  [Base   |-> WithUnit(base),
         Height |-> WithUnit(height),
         Size   |-> IF size # <<>> THEN Str(size) ELSE PyNone]

\* the "×" character is the atom "times"
CleanSize(s) ==
    RemoveChar(RemoveChar(ReplaceChar(ReplaceChar(Lower(s), ",", "."), "times", "x"),
                          "m"), " ")

\* s is matched as a whole by \d*\.?\d+
IsNumber(s) ==
    /\ s # <<>>
    /\ IsDigit(s[Len(s)])
    /\ \A i \in 1..Len(s) : IsDigit(s[i]) \/ s[i] = "."
    /\ Cardinality({i \in 1..Len(s) : s[i] = "."}) <= 1

\* length of the run of digits s starts with
RECURSIVE DigitRun(_)
DigitRun(s) == IF s # <<>> /\ IsDigit(Head(s)) THEN 1 + DigitRun(Tail(s)) ELSE 0

\* length of the greedy match of \d*\.?\d+ at the start of s, 0 when there is none
NumberPrefix(s) ==
    LET d    == DigitRun(s)
        rest == SubSeq(s, d + 1, Len(s))
        frac == IF rest # <<>> /\ Head(rest) = "." THEN DigitRun(Tail(rest)) ELSE 0
    IN  IF frac > 0 THEN d + 1 + frac ELSE d

\* re.search(r"(\d*\.?\d+)[xX](\d*\.?\d+)", cleaned): the two groups of the
\* leftmost match, <<>> when there is no match
AreaStarts(s) ==
    {i \in 1..Len(s) :
        \E p \in (i + 1)..Len(s) :
            /\ IsSeparator(s[p])
            /\ IsNumber(SubSeq(s, i, p - 1))
            /\ NumberPrefix(SubSeq(s, p + 1, Len(s))) > 0}

AreaSearch(s) ==
    IF AreaStarts(s) = {} THEN <<>>
    ELSE LET i == CHOOSE k \in AreaStarts(s) : \A j \in AreaStarts(s) : k <= j
             p == CHOOSE k \in (i + 1)..Len(s) :
                     IsSeparator(s[k]) /\ IsNumber(SubSeq(s, i, k - 1))
             n == NumberPrefix(SubSeq(s, p + 1, Len(s)))
         IN  <<SubSeq(s, i, p - 1), SubSeq(s, p + 1, p + n)>>

DigitValue(c) == (CHOOSE i \in 1..Len(Digits) : Digits[i] = c) - 1

\* int(s) for a string of digits, 0 for the empty string
RECURSIVE IntOf(_)
IntOf(s) == IF s = <<>> THEN 0
            ELSE 10 * IntOf(SubSeq(s, 1, Len(s) - 1)) + DigitValue(s[Len(s)])

RECURSIVE Pow10(_)
Pow10(n) == IF n = 0 THEN 1 ELSE 10 * Pow10(n - 1)

\* float(s) as its numerator over the power of ten Pow10(scale)
FloatOf(s) ==
    LET digits == RemoveChar(s, ".")
        dot    == {i \in 1..Len(s) : s[i] = "."}
    IN  [num |-> IntOf(digits), scale |-> IF dot = {} THEN 0 ELSE Len(s) - SetMax(dot)]

\* round(num / den, 2) cut off instead of rounded
Round2_Truncating(num, den) == {(100 * num) \div den}

\* round(num / den, 2) in hundredths: the nearest one.  Halfway between two
\* hundredths the binary float of the product may lie on either side (or on
\* the tie, which goes to the even one), so both neighbours are outcomes.
Round2(num, den) ==
    LET q == (100 * num) \div den
        r == (100 * num) % den
    IN  IF 2 * r > den THEN {q + 1}
        ELSE IF 2 * r = den THEN {q, q + 1}
        ELSE {q}

\* repr of the float that is h hundredths
FloatRepr(h) ==
    LET whole == IntStr(h \div 100)
        frac  == h % 100
    IN  IF frac % 10 = 0 THEN whole \o <<".">> \o IntStr(frac \div 10)
        ELSE whole \o <<".">> \o <<Digits[(frac \div 10) + 1], Digits[(frac % 10) + 1]>>

\* the values calculate_area_from_size(size_str) can return
calculate_area_from_size(size_str) ==
    IF IsNa(size_str) THEN {PyNone}
    ELSE LET match == AreaSearch(CleanSize(PyStr(size_str)))
         IN  IF match = <<>> THEN {PyNone}
             ELSE LET base   == FloatOf(match[1])
                      height == FloatOf(match[2])
                  IN  {Num(FloatRepr(h)) :
                          h \in Round2(base.num * height.num,
                                       Pow10(base.scale + height.scale))}

(***************************************************************************)
(* DataProcessor: dates.  A date is a record [y, m, d]; a date text is     *)
(* parsed and written character by character.  pd.to_datetime is modelled  *)
(* for the texts the runs use: yyyy-mm-dd, dd/mm/yy and dd/mm/yyyy; any    *)
(* other text, and a text naming a day that does not exist, has no date.   *)
(***************************************************************************)
IsLeap(y) == (y % 4 = 0 /\ y % 100 # 0) \/ y % 400 = 0

\* calendar.monthrange(y, m)[1]
monthrange(y, m) ==
    IF m = 2 THEN (IF IsLeap(y) THEN 29 ELSE 28)
    ELSE IF m \in {4, 6, 9, 11} THEN 30 ELSE 31

IsDate(y, m, d) == m \in 1..12 /\ d >= 1 /\ d <= monthrange(y, m)

AllDigits(s) == \A i \in 1..Len(s) : IsDigit(s[i])

\* "%02d" % n
Pad2(n) == IF n < 10 THEN <<"0">> \o IntStr(n) ELSE IntStr(n)

\* dt.strftime("%Y-%m-%d"), for a year of four digits
strftime(dt) == IntStr(dt.y) \o <<"-">> \o Pad2(dt.m) \o <<"-">> \o Pad2(dt.d)

\* the date of a text yyyy-mm-dd
ParseIso(s) ==
    IF /\ Len(s) = 10
       /\ s[5] = "-" /\ s[8] = "-"
       /\ AllDigits(SubSeq(s, 1, 4)) /\ AllDigits(SubSeq(s, 6, 7)) /\ AllDigits(SubSeq(s, 9, 10))
    THEN LET y == IntOf(SubSeq(s, 1, 4))
             m == IntOf(SubSeq(s, 6, 7))
             d == IntOf(SubSeq(s, 9, 10))
         IN  IF IsDate(y, m, d) THEN Some([y |-> y, m |-> m, d |-> d]) ELSE None
    ELSE None

\* the date of a text a/b/yy or a/b/yyyy: a is the day when dayfirst, else the month
ParseSlash(s, dayfirst) ==
    IF /\ Len(s) \in {8, 10}
       /\ s[3] = "/" /\ s[6] = "/"
       /\ AllDigits(SubSeq(s, 1, 2)) /\ AllDigits(SubSeq(s, 4, 5)) /\ AllDigits(SubSeq(s, 7, Len(s)))
    THEN LET a  == IntOf(SubSeq(s, 1, 2))
             b  == IntOf(SubSeq(s, 4, 5))
             yy == IntOf(SubSeq(s, 7, Len(s)))
             y  == IF Len(s) = 10 THEN yy ELSE IF yy < 69 THEN 2000 + yy ELSE 1900 + yy
             d  == IF dayfirst THEN a ELSE b
             m  == IF dayfirst THEN b ELSE a
         IN  IF IsDate(y, m, d) THEN Some([y |-> y, m |-> m, d |-> d]) ELSE None
    ELSE None

\* pd.to_datetime(value, dayfirst=...): None when it raises or gives NaT
to_datetime(v, dayfirst) ==
    IF ~IsStr(v) THEN None
    ELSE LET s == Strip(v.s)
         IN  IF ParseIso(s) # None THEN ParseIso(s) ELSE ParseSlash(s, dayfirst)

\* _safe_to_date(value)
safe_to_date(v) ==
    LET dt == to_datetime(v, TRUE)
    IN  IF dt = None THEN v ELSE Str(strftime(dt[1]))

\* process_dates, on one row
process_dates(r) == [r EXCEPT !.Start = safe_to_date(r.Start), !.End = safe_to_date(r.End)]

DISPONIBIL == <<"D", "i", "s", "p", "o", "n", "i", "b", "i", "l", ":">>

\* s starts with \d{2}/\d{2}/\d{2}
StartsWithShortDate(s) ==
    /\ Len(s) >= 8
    /\ s[3] = "/" /\ s[6] = "/"
    /\ AllDigits(SubSeq(s, 1, 2)) /\ AllDigits(SubSeq(s, 4, 5)) /\ AllDigits(SubSeq(s, 7, 8))

\* the two groups of Disponibil:\s*(\d{2}/\d{2}/\d{2})\s*:\s*(\d{2}/\d{2}/\d{2})
\* matched at the start of s, <<>> when s does not start with a match
DisponibilAt(s) ==
    IF ~StartsWith(s, DISPONIBIL) THEN <<>>
    ELSE LET a == LStrip(SubSeq(s, Len(DISPONIBIL) + 1, Len(s)))
         IN  IF ~StartsWithShortDate(a) THEN <<>>
             ELSE LET b == LStrip(SubSeq(a, 9, Len(a)))
                  IN  IF b = <<>> \/ Head(b) # ":" THEN <<>>
                      ELSE LET c == LStrip(Tail(b))
                           IN  IF StartsWithShortDate(c)
                               THEN <<SubSeq(a, 1, 8), SubSeq(c, 1, 8)>>
                               ELSE <<>>

\* re.search of that pattern: the groups of the leftmost match
RECURSIVE DisponibilSearch(_)
DisponibilSearch(s) ==
    IF s = <<>> THEN <<>>
    ELSE IF DisponibilAt(s) # <<>> THEN DisponibilAt(s)
    ELSE DisponibilSearch(Tail(s))

\* extract_disponibil(x, current_end): the pair it returns
extract_disponibil(x, current_end) ==
    IF IsNa(x) THEN <<PyNone, PyNone>>
    ELSE LET match == DisponibilSearch(PyStr(x))
         IN  IF match = <<>> THEN <<x, current_end>>
             ELSE LET start == to_datetime(Str(match[1]), TRUE)
                      end   == to_datetime(Str(match[2]), TRUE)
                  IN  IF start = None \/ end = None
                      THEN <<x, current_end>>
                      ELSE <<Str(strftime(start[1])), Str(strftime(end[1]))>>

\* deal_with_literal_dates, on one row
deal_with_literal_dates(r) ==
    LET pair == extract_disponibil(r.Start, r.End)
    IN  [r EXCEPT !.Start = pair[1], !.End = pair[2]]

\* a month as the number of months since year 0
MonthIndex(dt) == 12 * dt.y + (dt.m - 1)

\* start > end
DateAfter(a, b) ==
    \/ MonthIndex(a) > MonthIndex(b)
    \/ MonthIndex(a) = MonthIndex(b) /\ a.d > b.d

\* the while loop with <= in place of <
RECURSIVE FullMonths_Inclusive(_, _)
FullMonths_Inclusive(current, last) ==
    IF current <= last THEN 1 + FullMonths_Inclusive(current + 1, last) ELSE 0

\* the while loop: the month starts from current up to, not including, last
RECURSIVE FullMonths(_, _)
FullMonths(current, last) ==
    IF current < last THEN 1 + FullMonths(current + 1, last) ELSE 0

\* days counted in the start month, without the start day
FirstMonthDays_Exclusive(start) == monthrange(start.y, start.m) - start.d

\* days counted in the start month: days_in_start_month - start.day + 1
FirstMonthDays(start) == monthrange(start.y, start.m) - start.d + 1

\* the values calculate_no_of_months(row) can return
calculate_no_of_months(r) ==
    LET start == to_datetime(r.Start, FALSE)
        end   == to_datetime(r.End, FALSE)
    IN  IF start = None \/ end = None THEN {PyNone}
        ELSE IF DateAfter(start[1], end[1]) THEN {PyNone}
        ELSE LET ds   == monthrange(start[1].y, start[1].m)
                 de   == monthrange(end[1].y, end[1].m)
                 full == FullMonths(MonthIndex(start[1]) + 1, MonthIndex(end[1]))
             IN  {Num(FloatRepr(h)) :
                     h \in Round2(FirstMonthDays(start[1]) * de + full * ds * de
                                      + end[1].d * ds,
                                  ds * de)}

(***************************************************************************)
(* DataProcessor.process_files: the enrichment of the merged table.        *)
(***************************************************************************)
BASE == <<"B", "a", "s", "e">>
HEIGHT == <<"H", "e", "i", "g", "h", "t">>
SIZE == <<"S", "i", "z", "e">>
GPS == <<"G", "P", "S">>
LATITUDE == <<"L", "a", "t", "i", "t", "u", "d", "e">>
LONGITUDE == <<"L", "o", "n", "g", "i", "t", "u", "d", "e">>
START == <<"S", "t", "a", "r", "t">>
END == <<"E", "n", "d">>
NO_OF_MONTHS == <<"N", "o", ".", " ", "o", "f", " ", "m", "o", "n", "t", "h", "s">>
NUME_FURNIZOR == <<"N", "U", "M", "E", " ", "F", "U", "R", "N", "I", "Z", "O", "R">>
FORMAT == <<"F", "o", "r", "m", "a", "t">>
XLSX == <<".", "x", "l", "s", "x">>

\* row.get(name) on row k of the table: None for a column it does not have
RowGet(d, k, name) == IF HasCol(d, name) THEN d.data[k][ColPos(d, name)] ELSE PyNone

\* row k of the table as the functions applied row-wise read it
RowOf(d, k) ==
    [Base   |-> RowGet(d, k, BASE),
     Height |-> RowGet(d, k, HEIGHT),
     Size   |-> RowGet(d, k, SIZE),
     Start  |-> RowGet(d, k, START),
     End    |-> RowGet(d, k, END)]

\* build_gps_from_lat_long(row)
build_gps_from_lat_long(d, k) ==
    LET latitude  == RowGet(d, k, LATITUDE)
        longitude == RowGet(d, k, LONGITUDE)
        gps       == RowGet(d, k, GPS)
    IN  IF ~IsNa(gps) /\ Strip(PyStr(gps)) # <<>> THEN gps
        ELSE IF ~IsNa(latitude) /\ ~IsNa(longitude)
             THEN Str(PyStr(latitude) \o <<",", " ">> \o PyStr(longitude))
             ELSE PyNone

\* final_df[["Base", "Height", "Size"]] = final_df.apply(process_size_base_height, axis=1)
WithDimensions(d) ==
    LET rows == [k \in 1..Len(d.idx) |-> process_size_base_height(RowOf(d, k))]
        b    == PutColumn(d, BASE, [k \in 1..Len(d.idx) |-> rows[k].Base])
        h    == PutColumn(b, HEIGHT, [k \in 1..Len(d.idx) |-> rows[k].Height])
    IN  PutColumn(h, SIZE, [k \in 1..Len(d.idx) |-> rows[k].Size])

\* final_df["GPS"] = final_df.apply(build_gps_from_lat_long, axis=1)
WithGps(d) == PutColumn(d, GPS, [k \in 1..Len(d.idx) |-> build_gps_from_lat_long(d, k)])

\* process_dates and deal_with_literal_dates on the table
WithDates(d) ==
    LET rows == [k \in 1..Len(d.idx) |-> deal_with_literal_dates(process_dates(RowOf(d, k)))]
        s    == PutColumn(d, START, [k \in 1..Len(d.idx) |-> rows[k].Start])
    IN  PutColumn(s, END, [k \in 1..Len(d.idx) |-> rows[k].End])

\* the sequences that take element k from the set sets[k]
Choices(sets) ==
    {f \in [1..Len(sets) -> UNION {sets[k] : k \in 1..Len(sets)}] :
        \A k \in 1..Len(sets) : f[k] \in sets[k]}

\* the columns final_df.apply(calculate_no_of_months, axis=1) can give
MonthColumns(d) == Choices([k \in 1..Len(d.idx) |-> calculate_no_of_months(RowOf(d, k))])

\* s ends with suffix, whatever the case of the letters
EndsWithIgnoreCase(s, suffix) ==
    Len(s) >= Len(suffix) /\ Lower(SubSeq(s, Len(s) - Len(suffix) + 1, Len(s))) = Lower(suffix)

\* str.rstrip("-")
RECURSIVE RStripDash(_)
RStripDash(s) == IF s # <<>> /\ s[Len(s)] = "-" THEN RStripDash(SubSeq(s, 1, Len(s) - 1)) ELSE s

\* the value of "NUME FURNIZOR" for a source file name
SupplierName(v) ==
    LET s == Strip(PyStr(v))
        t == IF EndsWithIgnoreCase(s, XLSX) THEN SubSeq(s, 1, Len(s) - Len(XLSX)) ELSE s
    IN  Str(Strip(RStripDash(t)))

WithSupplier(d) ==
    PutColumn(d, NUME_FURNIZOR,
              [k \in 1..Len(d.idx) |-> SupplierName(RowGet(d, k, SOURCE_FILE))])

\* final_df.drop(columns=[name], errors="ignore")
DropColumn(d, name) ==
    IF ~HasCol(d, name) THEN d
    ELSE LET Keep(j) == d.cols[j] # name
             kept == SelectSeq([j \in 1..Len(d.cols) |-> j], Keep)
         IN  [cols |-> [n \in 1..Len(kept) |-> d.cols[kept[n]]],
              idx  |-> d.idx,
              data |-> [k \in 1..Len(d.idx) |-> [n \in 1..Len(kept) |-> d.data[k][kept[n]]]]]

\* the columns final_df["Size"].apply(calculate_area_from_size) can give
AreaColumns(d) ==
    Choices([k \in 1..Len(d.idx) |-> calculate_area_from_size(RowGet(d, k, SIZE))])

\* lines 417-421 of process_files
EnrichedUpToDates(d) == WithDates(WithGps(WithDimensions(d)))

\* lines 423-433, given the months and, after "Format" is set, the areas
EnrichedFrom(d, months, areas) ==
    LET m == PutColumn(d, NO_OF_MONTHS, months)
        n == DropColumn(DropColumn(WithSupplier(m), LATITUDE), LONGITUDE)
        f == PutColumn(n, FORMAT, [k \in 1..Len(n.idx) |-> RowGet(n, k, SIZE)])
    IN  PutColumn(f, SIZE, areas)

\* the row-wise steps need rows (with none, the assignment of the result of
\* apply raises ValueError) and the columns "Start" and "End" (KeyError)
CanEnrich(d) == Len(d.idx) > 0 /\ HasCol(d, START) /\ HasCol(d, END)

(***************************************************************************)
(* Input files and configurations of the pipeline runs.                    *)
(*                                                                         *)
(* Every sheet is HeaderThreshold + 1 columns wide and its header row has  *)
(* a label in the last column.  The header labels are distinct, so pandas  *)
(* does not rename any of them.  Data rows hold fewer than HeaderThreshold *)
(* values, so a sheet without a header row has no qualifying row at all.   *)
(***************************************************************************)
SheetWidth == HeaderThreshold + 1

HeaderNames == << <<"P", "o", "z", "a_acute">>, <<"a">>, <<"f", "o", "t", "o">>, <<"s", "c", "h", "i", "t", "a">>, <<"b">> >>

\* the label of header column c: the names above, then fillers "c<c>"
HeaderName(c) == IF c <= Len(HeaderNames) THEN HeaderNames[c] ELSE <<"c">> \o IntStr(c)

\* a row whose first n cells hold text
TextRow(n, text) ==
    [c \in 1..SheetWidth |-> IF c <= n THEN PlainCell(Str(text)) ELSE PlainCell(NaN)]

\* a header row with n labels: the first n - 1 columns and the last one
HeaderRow(n) ==
    [c \in 1..SheetWidth |->
        IF c < n \/ c = SheetWidth THEN PlainCell(Str(HeaderName(c))) ELSE PlainCell(NaN)]

\* rows that may stand above the header: a blank row, a row one value short
PreambleRows == { TextRow(0, <<"t">>), TextRow(HeaderThreshold - 1, <<"t">>) }

PreambleSeqs == UNION {[1..k -> PreambleRows] : k \in 0..MaxPre}

HeaderFills == {HeaderThreshold - 1, HeaderThreshold, HeaderThreshold + 1}

\* a data row: the cells under poza, a, foto, schita and b, the rest is empty
DataRow(poza, a, foto, schita, b) ==
    [c \in 1..SheetWidth |->
        CASE c = 1 -> poza [] c = 2 -> a [] c = 3 -> foto [] c = 4 -> schita
          [] c = 5 -> b [] OTHER -> PlainCell(NaN)]

Target1 == <<"t", "1">>
Target2 == <<"t", "2">>

Blank == PlainCell(NaN)

RowLinkAfterText ==
    DataRow(PlainCell(Str(<<"w", "w", "w", ".", "x">>)), PlainCell(Str(<<"v">>)),
            LinkedCell(Str(<<"s", "e", "e">>), Target2), Blank, Blank)

RowTextSecond ==
    DataRow(PlainCell(Str(<<"x">>)), Blank,
            PlainCell(Str(<<" ", "h", "t", "t", "p", "s", ":", "/", "/", "y", " ">>)), PlainCell(Str(<<"w", "w", "w", ".", "z">>)), PlainCell(Str(<<"w">>)))

RowBothLinks ==
    DataRow(LinkedCell(NaN, Target1), PlainCell(Str(<<"v">>)),
            LinkedCell(Str(<<"x">>), Target2),
            FormulaCell(Str(<<"s">>), <<"=", "H", "Y", "P", "E", "R", "L", "I", "N", "K", "(", "\"", "t", "3", "\"", ",", "\"", "s", "\"", ")">>), Blank)

RowNoLink ==
    DataRow(Blank, PlainCell(Str(<<"v">>)), PlainCell(Str(<<"x">>)), Blank, Blank)

RowUpperWww ==
    DataRow(PlainCell(Str(<<"W", "W", "W", ".", "x">>)), Blank, PlainCell(Str(<<"h", "t", "t", "p", ":", "/", "/", "y">>)), Blank, Blank)

RowNumber ==
    DataRow(PlainCell(Num(<<"5">>)), PlainCell(Str(<<" ">>)), Blank,
            PlainCell(Str(<<"w", "w", "w", ".", "s">>)), Blank)

RowBlank == DataRow(Blank, Blank, Blank, Blank, Blank)

\* a row that holds one space and nothing else
RowSpace == DataRow(Blank, PlainCell(Str(<<" ">>)), Blank, Blank, Blank)

DataRows == { RowLinkAfterText, RowTextSecond, RowBothLinks, RowNoLink, RowUpperWww,
              RowNumber, RowBlank, RowSpace }

DataRowSeqs == UNION {[1..k -> DataRows] : k \in 0..MaxRows}

\* an input file: its name, whether each pass can read it, whether it is a
\* stream with a seek method (or a path), and its sheet
MkFile(name, pre, fill, rows) ==
    [name    |-> name,
     probeOk |-> TRUE,
     parseOk |-> TRUE,
     linksOk |-> TRUE,
     seekable |-> TRUE,
     cells   |-> pre \o <<HeaderRow(fill)>> \o rows]

SingleName == <<"s", ".", "x", "l", "s", "x">>

LayoutFiles ==
    { MkFile(SingleName, pre, fill, <<RowLinkAfterText>>) :
         pre \in PreambleSeqs, fill \in HeaderFills }

RowFiles ==
    { MkFile(SingleName, <<TextRow(1, <<"t">>)>>, HeaderThreshold + 1, rows) :
         rows \in DataRowSeqs }

GoodFile1 == MkFile(<<"g", "1", ".", "x", "l", "s", "x">>, <<>>, HeaderThreshold + 1, <<RowLinkAfterText, RowNoLink>>)
GoodFile2 == MkFile(<<"g", "2", ".", "x", "l", "s", "x">>, <<TextRow(1, <<"t">>)>>, HeaderThreshold, <<RowTextSecond>>)
NoHeaderFile == MkFile(<<"n", "h", ".", "x", "l", "s", "x">>, <<>>, HeaderThreshold - 1, <<RowNoLink>>)
ProbeFailFile == [MkFile(<<"p", "f", ".", "x", "l", "s", "x">>, <<>>, HeaderThreshold + 1, <<RowUpperWww>>) EXCEPT !.probeOk = FALSE]
ParseFailFile == [MkFile(<<"r", "f", ".", "x", "l", "s", "x">>, <<>>, HeaderThreshold + 1, <<RowUpperWww>>) EXCEPT !.parseOk = FALSE]
LinksFailFile == [MkFile(<<"l", "f", ".", "x", "l", "s", "x">>, <<>>, HeaderThreshold + 1, <<RowUpperWww>>) EXCEPT !.linksOk = FALSE]
FormulaT3 == <<"=", "h", "y", "p", "e", "r", "l", "i", "n", "k", "(", " ", "\"", "t", "3", "\"", ",", "\"", "s", "\"", ")">>

\* a sheet with links outside its data region: on a cell above the header,
\* on a header label and on an empty cell below the last row with values;
\* its data row has a formula cell with a native target under Poza and a
\* formula cell with a targetless hyperlink under foto
SheetLinksFile ==
    [MkFile(<<"s", "l", ".", "x", "l", "s", "x">>, <<>>, HeaderThreshold + 1, <<>>) EXCEPT
        !.cells = << [TextRow(1, <<"t">>) EXCEPT ![1] = LinkedCell(Str(<<"t">>), Target2)],
                     [HeaderRow(HeaderThreshold + 1) EXCEPT ![2] = FormulaCell(Str(<<"a">>), FormulaT3)],
                     DataRow(LinkedFormulaCell(Str(<<"s">>), FormulaT3, Target1),
                             PlainCell(Str(<<"v">>)),
                             LinkedFormulaCell(Str(<<"s">>), FormulaT3, <<>>), Blank, Blank),
                     DataRow(LinkedCell(NaN, Target2), Blank, Blank, Blank, Blank) >>]

\* a file given by its path, not as a stream
PathFile == [MkFile(<<"p", "a", ".", "x", "l", "s", "x">>, <<>>, HeaderThreshold + 1, <<RowNoLink>>) EXCEPT !.seekable = FALSE]

FailFiles == { [f EXCEPT !.name = SingleName] : f \in {ProbeFailFile, ParseFailFile, LinksFailFile} }

SinglePool == LayoutFiles \cup RowFiles \cup FailFiles \cup {PathFile, SheetLinksFile}

BatchPool == { GoodFile1, GoodFile2, NoHeaderFile, ProbeFailFile, ParseFailFile, LinksFailFile,
               PathFile }

Batches ==
    {<<>>} \cup {<<f>> : f \in SinglePool} \cup UNION {[1..n -> BatchPool] : n \in 2..MaxFiles}

Field(name, kws) == [name |-> name, keywords |-> kws, priority |-> <<>>, avoid |-> <<>>]

FieldA == Field(<<"A">>, << <<"a">> >>)
FieldB == [name |-> <<"B">>, keywords |-> <<>>, priority |-> << <<"B">> >>, avoid |-> << <<"c">> >>]
FieldQ == Field(<<"Q">>, << <<"q">> >>)
FieldPhoto == Field(PHOTO_LINK, << <<"p", "o", "z", "a">> >>)
FieldTech == Field(TECH_DETAILS, << <<"s", "c", "h", "i", "t", "a">> >>)

\* Start and End match no column of the sheets
FieldStart == Field(START, << <<"s", "t", "a", "r", "t">> >>)
FieldEnd == Field(END, << <<"e", "n", "d">> >>)
\* Size and Start taken from the columns a and b
FieldSizeA == Field(SIZE, << <<"a">> >>)
FieldStartB == Field(START, << <<"b">> >>)

ConfigPool == { <<FieldA, FieldPhoto, FieldQ, FieldStart, FieldEnd>>,
                <<FieldQ, FieldTech, FieldA, FieldStart, FieldEnd>>,
                <<FieldPhoto, FieldQ, FieldStart, FieldEnd>>,
                <<FieldA, FieldB, FieldStart, FieldEnd>>,
                <<FieldSizeA, FieldStartB, FieldEnd>>,
                <<FieldPhoto, FieldTech, FieldA, FieldStart, FieldEnd>> }

(***************************************************************************)
(* Inputs of the scoring and matching runs.                                *)
(***************************************************************************)
ColAlphabet == {"a", "b", " ", "/"}

SpecialCols == { <<"A">>, <<"a_acute", "b">>, <<"a", "-", "b">>, <<"\n", "a">>,
                 <<"a", " ", " ", "b">> }

ScoreCols == StrOver(ColAlphabet, MaxColLen) \cup SpecialCols

TermPool == { <<"a">>, <<"a", "b">>, <<"b", " ", "a">>, <<"A", "/">>, <<>> }

TermLists(pool, n) == UNION {[1..k -> pool] : k \in 0..n}

MatchColPool == { <<"a">>, <<"a", "b">>, <<"a", " ", "b">>, <<"a", "/">>, <<"c">> }

MatchTermPool == { <<"a">>, <<"b">>, <<"a", " ", "b">> }

ColumnLists == UNION {[1..k -> MatchColPool] : k \in 0..MaxCols}

\* the result of a function that has not returned yet
NotCalled == [t |-> "unset", s |-> <<>>]

\* a row without values
NoRow == [Base |-> NaN, Height |-> NaN, Size |-> NaN, Start |-> NaN, End |-> NaN]

(***************************************************************************)
(* Inputs of the dimension normalizer runs.                                *)
(***************************************************************************)
DimAlphabet == {"2", ",", " ", "m", "M", "x"}

DimValues ==
    {NaN, PyNone, Num(<<"2">>), Str(<<"2", ",", "5", " ", "m">>), Str(<<"3", "m", "2">>)}
        \cup {Str(s) : s \in StrOver(DimAlphabet, MaxDimLen)}

RowSizeAlphabet == {"2", "x", "X", " ", "m"}

RowSizes ==
    {NaN, Num(<<"2">>), Str(<<"2", ".", "5", "x", "3">>)}
        \cup {Str(s) : s \in StrOver(RowSizeAlphabet, MaxDimLen)}

RowDims == {NaN, Str(<<"2">>), Str(<<" ", "3", ",", "5", " ", "M">>), Str(<<"m">>)}

DimRows ==
    {[NoRow EXCEPT !.Base = b, !.Height = h, !.Size = z] :
        b \in RowDims, h \in RowDims, z \in RowSizes}

AreaAlphabet == {"2", "5", ".", "x", "m", " "}

AreaSizes ==
    {NaN, PyNone, Num(<<"2">>), Str(<<"2", ".", "5", "m", " ", "x", " ", "4", "m">>), Str(<<"2", ",", "5", "X", "2">>), Str(<<"2", "times", "5">>), Str(<<"2", "m", " ", "x", " ", "2", "m", " ", "x", " ", "5">>),
     Str(<<".", "2", "5", "x", ".", "5", "5">>), Str(<<".", "2", "5", "x", ".", "5">>)}
        \cup {Str(s) : s \in StrOver(AreaAlphabet, MaxSizeLen)}

(***************************************************************************)
(* Inputs of the date normalizer runs.                                     *)
(***************************************************************************)
\* the Start texts of the raw records
RawStarts ==
    {NaN,
     Str(<<"x">>),
     Str(<<"2", "0", "2", "4", "-", "0", "1", "-", "1", "5">>),
     Str(<<"1", "5", "/", "0", "1", "/", "2", "0", "2", "4">>),
     Str(<<"3", "1", "/", "0", "2", "/", "2", "0", "2", "4">>),
     Str(<<"D", "i", "s", "p", "o", "n", "i", "b", "i", "l", ":", " ", "0", "1", "/", "0", "5", "/", "2", "4", " ", ":", " ", "3", "0", "/", "0", "6", "/", "2", "4">>),
     Str(<<"D", "i", "s", "p", "o", "n", "i", "b", "i", "l", ":", "1", "5", "/", "0", "1", "/", "2", "4", ":", "1", "0", "/", "0", "3", "/", "2", "4">>),
     Str(<<"x", "\n", "D", "i", "s", "p", "o", "n", "i", "b", "i", "l", ":", " ", "0", "1", "/", "0", "5", "/", "2", "4", " ", ":", " ", "3", "0", "/", "0", "6", "/", "2", "4", "\n", "D", "i", "s", "p", "o", "n", "i", "b", "i", "l", ":", " ", "0", "1", "/", "0", "7", "/", "2", "4", " ", ":", " ", "3", "1", "/", "0", "7", "/", "2", "4">>),
     Str(<<"D", "i", "s", "p", "o", "n", "i", "b", "i", "l", ":", " ", "3", "1", "/", "0", "2", "/", "2", "4", " ", ":", " ", "3", "0", "/", "0", "6", "/", "2", "4">>),
     Str(<<"D", "i", "s", "p", "o", "n", "i", "b", "i", "l", ":", " ", "0", "1", "/", "0", "5", "/", "2", "4">>),
     Str(<<"d", "i", "s", "p", "o", "n", "i", "b", "i", "l", ":", " ", "0", "1", "/", "0", "5", "/", "2", "4", " ", ":", " ", "3", "0", "/", "0", "6", "/", "2", "4">>),
     Str(<<"D", "i", "s", "p", "o", "n", "i", "b", "i", "l", ":", " ", "0", "1", "/", "0", "5", "/", "2", "4", " ", "-", " ", "3", "0", "/", "0", "6", "/", "2", "4">>)}

RawEnds ==
    {NaN, Str(<<>>), Str(<<"x">>), Str(<<"2", "0", "2", "4", "-", "0", "6", "-", "3", "0">>), Str(<<"3", "0", "/", "0", "6", "/", "2", "0", "2", "4">>), Str(<<"3", "1", "/", "1", "2", "/", "2", "4">>)}

RawDateRows == {[NoRow EXCEPT !.Start = a, !.End = b] : a \in RawStarts, b \in RawEnds}

DateYears == 2023..(2022 + MaxYears)

\* the text yyyy-mm-dd of a year, a month and a day, existing or not
IsoText(y, m, d) == IntStr(y) \o <<"-">> \o Pad2(m) \o <<"-">> \o Pad2(d)

IsoTexts == {IsoText(y, m, d) : y \in DateYears, m \in {1, 2, 3, 12}, d \in {1, 15, 29, 31}}

NoDates == {NaN, PyNone, Str(<<"x">>)}

CanonicalStarts == NoDates \cup {Str(t) : t \in IsoTexts}

CanonicalEnds == CanonicalStarts \cup {Str(<<"2", "0", "2", "4", "-", "0", "3", "-", "1", "0">>)}

VARIABLES
    spc,        \* position of the scoring / matching run
    col,        \* score_match argument col
    columns,    \* find_best_match argument columns
    keywords,   \* argument keywords
    priority,   \* argument priority
    avoid,      \* argument avoid
    extra,      \* the avoid term added for the second score_match call
    score,      \* result of score_match(col, keywords, priority, avoid)
    score2,     \* result of score_match(col, keywords, priority, avoid + [extra])
    best,       \* first component of the result of find_best_match
    ranked,     \* second component of the result of find_best_match
    groups,     \* self.groups: the configured fields, in iteration order
    files,      \* file_objs: the argument of process_files
    fi,         \* number of the file process_files is at (1-based, 0 before the first)
    ppc,        \* position of process_files / extract_standardized_dataframe
    raw_data,   \* local raw_data: the headerless grid
    header_row_index,   \* local header_row_index: None or Some(index)
    df,         \* local df: the header-aware table
    hyperlinks, \* local hyperlinks
    link_order, \* the keys of hyperlinks in the order they were inserted
    extracted,  \* local extracted, the value returned to process_files
    all_data,   \* local all_data of process_files
    final_df,   \* the table process_files returns
    raised,     \* the pass whose exception left process_files, "none" otherwise
    stream,     \* the stream of the file the loop is at: its position and the
                \* operations extract_standardized_dataframe has made on it
    cpc,        \* the function a normalizer run calls
    value,      \* normalize_dimension argument value
    size_str,   \* calculate_area_from_size argument size_str
    row,        \* the row a row-wise function is applied to
    row2,       \* a second row with the same Start
    result,     \* what the function returned for value, size_str or row
    result2     \* what the function returned for row2

matchVars == <<spc, col, columns, keywords, priority, avoid, extra, score, score2,
               best, ranked>>

pipeVars == <<groups, files, fi, ppc, raw_data, header_row_index, df, hyperlinks,
              link_order, extracted, all_data, final_df, raised, stream>>

calcVars == <<cpc, value, size_str, row, row2, result, result2>>

vars == <<matchVars, pipeVars, calcVars>>

NoResult == "none"

NoDF == [columns |-> <<>>, rows |-> <<>>]

\* the locals of extract_standardized_dataframe before a call
LocalsCleared ==
    /\ raw_data = <<>>
    /\ header_row_index = None
    /\ df = NoDF
    /\ hyperlinks = EmptyMap
    /\ link_order = <<>>
    /\ extracted = EmptyDF

\* no pipeline run: the scoring and matching runs leave the pipeline alone
PipelineIdle ==
    /\ groups = <<>>
    /\ files = <<>>
    /\ fi = 0
    /\ ppc = "idle"
    /\ LocalsCleared
    /\ all_data = <<>>
    /\ final_df = EmptyDF
    /\ raised = "none"
    /\ stream = NoStream

\* no scoring or matching run
MatcherIdle ==
    /\ spc = "idle"
    /\ col = <<>>
    /\ columns = <<>>
    /\ keywords = <<>>
    /\ priority = <<>>
    /\ avoid = <<>>
    /\ extra = <<>>
    /\ score = NoResult
    /\ score2 = NoResult
    /\ best = None
    /\ ranked = <<>>

\* no normalizer run
CalcIdle ==
    /\ cpc = "idle"
    /\ value = NaN
    /\ size_str = NaN
    /\ row = NoRow
    /\ row2 = NoRow
    /\ result = NotCalled
    /\ result2 = NotCalled

\* the three term lists hold at most MaxTerms terms together
TermArgs(pool) ==
    \E n \in 0..MaxTerms : \E m \in 0..(MaxTerms - n) :
          /\ priority \in TermLists(pool, n)
          /\ keywords \in TermLists(pool, m)
          /\ avoid \in TermLists(pool, MaxTerms - n - m)

InitScore ==
    /\ spc = "start"
    /\ col \in ScoreCols
    /\ columns = <<>>
    /\ TermArgs(TermPool)
    /\ extra = <<>>
    /\ score = NoResult
    /\ score2 = NoResult
    /\ best = None
    /\ ranked = <<>>
    /\ PipelineIdle
    /\ CalcIdle

\* score_match(col, keywords, priority, avoid)
ScoreMatch ==
    /\ spc = "start"
    /\ score' = score_match(col, keywords, priority, avoid)
    /\ spc' = "scored"
    /\ UNCHANGED <<col, columns, keywords, priority, avoid, extra, score2, best, ranked, pipeVars, calcVars>>

\* the same call with one more avoid term
ScoreMatchExtraAvoid ==
    /\ spc = "scored"
    /\ \E a \in TermPool :
          /\ extra' = a
          /\ score2' = score_match(col, keywords, priority, Append(avoid, a))
    /\ spc' = "rescored"
    /\ UNCHANGED <<col, columns, keywords, priority, avoid, score, best, ranked, pipeVars, calcVars>>

NextScore == ScoreMatch \/ ScoreMatchExtraAvoid

SpecScore == InitScore /\ [][NextScore]_vars

InitMatch ==
    /\ spc = "start"
    /\ col = <<>>
    /\ columns \in ColumnLists
    /\ TermArgs(MatchTermPool)
    /\ extra = <<>>
    /\ score = NoResult
    /\ score2 = NoResult
    /\ best = None
    /\ ranked = <<>>
    /\ PipelineIdle
    /\ CalcIdle

\* find_best_match(columns, keywords, priority, avoid)
FindBestMatch ==
    /\ spc = "start"
    /\ LET r == find_best_match(columns, keywords, priority, avoid)
       IN  best' = r[1] /\ ranked' = r[2]
    /\ spc' = "matched"
    /\ UNCHANGED <<col, columns, keywords, priority, avoid, extra, score, score2, pipeVars, calcVars>>

NextMatch == FindBestMatch

SpecMatch == InitMatch /\ [][NextMatch]_vars

(***************************************************************************)
(* DataProcessor.process_files and extract_standardized_dataframe.         *)
(***************************************************************************)
InitPipeline ==
    /\ MatcherIdle
    /\ CalcIdle
    /\ groups \in ConfigPool
    /\ files \in Batches
    /\ fi = 0
    /\ ppc = "loop"
    /\ LocalsCleared
    /\ all_data = <<>>
    /\ final_df = EmptyDF
    /\ raised = "none"
    /\ stream = NoStream

\* the file_input / file_name pair the loop is at
file_input == files[fi]

\* for file_input, file_name in file_objs: the call of extract_standardized_dataframe
NextFile ==
    /\ ppc = "loop"
    /\ fi < Len(files)
    /\ fi' = fi + 1
    /\ ppc' = "probe"
    /\ \E p \in StartPositions(files[fi + 1]) : stream' = [pos |-> p, ops |-> <<>>]
    /\ UNCHANGED <<calcVars, matchVars, groups, files, raw_data, header_row_index, df, hyperlinks, link_order,
                   extracted, all_data, final_df, raised>>

\* 1) the headerless read, inside try / except
Probe ==
    /\ ppc = "probe"
    /\ stream' = read_excel(file_input, Seek(file_input, stream), None)
    /\ IF file_input.probeOk
       THEN /\ raw_data' = ReadRaw(file_input)
            /\ ppc' = "locate"
            /\ UNCHANGED extracted
       ELSE /\ extracted' = EmptyDF
            /\ ppc' = "return"
            /\ UNCHANGED raw_data
    /\ UNCHANGED <<calcVars, matchVars, groups, files, fi, header_row_index, df, hyperlinks, link_order,
                   all_data, final_df, raised>>

\* the loop over raw_data.iterrows()
LocateHeader ==
    /\ ppc = "locate"
    /\ header_row_index' = LocateHeaderFrom(raw_data, 0)
    /\ IF header_row_index' = None
       THEN extracted' = EmptyDF /\ ppc' = "return"
       ELSE UNCHANGED extracted /\ ppc' = "parse"
    /\ UNCHANGED <<calcVars, matchVars, groups, files, fi, raw_data, df, hyperlinks, link_order,
                   all_data, final_df, raised, stream>>

\* 2) the read with headers; an exception of read_excel is not caught
ParseWithHeader ==
    /\ ppc = "parse"
    /\ stream' = read_excel(file_input, Seek(file_input, stream), header_row_index)
    /\ IF file_input.parseOk
       THEN /\ df' = ReadWithHeader(file_input, header_row_index[1])
            /\ ppc' = "links"
            /\ UNCHANGED raised
       ELSE /\ ppc' = "raised"
            /\ raised' = "parse"
            /\ UNCHANGED df
    /\ UNCHANGED <<calcVars, matchVars, groups, files, fi, raw_data, header_row_index, hyperlinks, link_order,
                   extracted, all_data, final_df>>

\* 3) the rewind, then _extract_hyperlinks, which rewinds again; an
\* exception of load_workbook is not caught
ExtractHyperlinks ==
    /\ ppc = "links"
    /\ stream' = load_workbook(file_input, Seek(file_input, Seek(file_input, stream)))
    /\ IF file_input.linksOk
       THEN /\ hyperlinks' = extract_hyperlinks(file_input)
            /\ link_order' = LinkKeys(file_input)
            /\ ppc' = "build"
            /\ UNCHANGED raised
       ELSE /\ ppc' = "raised"
            /\ raised' = "links"
            /\ UNCHANGED <<hyperlinks, link_order>>
    /\ UNCHANGED <<calcVars, matchVars, groups, files, fi, raw_data, header_row_index, df,
                   extracted, all_data, final_df>>

\* 4) and 4a)
BuildOutput ==
    /\ ppc = "build"
    /\ extracted' = BuildExtracted(groups, df)
    /\ ppc' = "fill"
    /\ UNCHANGED <<calcVars, matchVars, groups, files, fi, raw_data, header_row_index, df, hyperlinks, link_order,
                   all_data, final_df, raised, stream>>

\* 4b), 4c) and 5)
FillLinks ==
    /\ ppc = "fill"
    /\ extracted' = FillLinksAndSource(extracted, hyperlinks, df, header_row_index[1], file_input.name)
    /\ ppc' = "return"
    /\ UNCHANGED <<calcVars, matchVars, groups, files, fi, raw_data, header_row_index, df, hyperlinks, link_order,
                   all_data, final_df, raised, stream>>

\* back in process_files: if not extracted.empty: all_data.append(extracted)
Return ==
    /\ ppc = "return"
    /\ all_data' = IF IsEmptyDF(extracted) THEN all_data ELSE Append(all_data, extracted)
    /\ raw_data' = <<>>
    /\ header_row_index' = None
    /\ df' = NoDF
    /\ hyperlinks' = EmptyMap
    /\ link_order' = <<>>
    /\ extracted' = EmptyDF
    /\ ppc' = "loop"
    /\ UNCHANGED <<calcVars, matchVars, groups, files, fi, final_df, raised, stream>>

\* after the loop: the early return, or concatenation and pruning
Finish ==
    /\ ppc = "loop"
    /\ fi = Len(files)
    /\ IF all_data = <<>>
       THEN final_df' = EmptyDF /\ ppc' = "done"
       ELSE /\ final_df' = remove_empty_columns(DropAllNa(Concat(all_data)), SOURCE_FILE)
            /\ ppc' = "enrich"
    /\ UNCHANGED <<calcVars, matchVars, groups, files, fi, raw_data, header_row_index, df,
                   hyperlinks, link_order, extracted, all_data, raised, stream>>

\* the enrichment of the merged table and the return of process_files
Enrich ==
    /\ ppc = "enrich"
    /\ IF CanEnrich(final_df)
       THEN /\ \E months \in MonthColumns(EnrichedUpToDates(final_df)) :
                 \E areas \in AreaColumns(EnrichedUpToDates(final_df)) :
                     final_df' = EnrichedFrom(EnrichedUpToDates(final_df), months, areas)
            /\ ppc' = "done"
            /\ UNCHANGED raised
       ELSE /\ ppc' = "raised"
            /\ raised' = "enrich"
            /\ UNCHANGED final_df
    /\ UNCHANGED <<calcVars, matchVars, groups, files, fi, raw_data, header_row_index, df,
                   hyperlinks, link_order, extracted, all_data, stream>>

NextPipeline ==
    \/ NextFile
    \/ Probe
    \/ LocateHeader
    \/ ParseWithHeader
    \/ ExtractHyperlinks
    \/ BuildOutput
    \/ FillLinks
    \/ Return
    \/ Finish
    \/ Enrich

SpecPipeline == InitPipeline /\ [][NextPipeline]_vars

(***************************************************************************)
(* The dimension functions of DataProcessor, each called on one input.     *)
(***************************************************************************)
InitDimension ==
    /\ MatcherIdle
    /\ PipelineIdle
    /\ cpc \in {"normalize_dimension", "process_size_base_height", "calculate_area_from_size"}
    /\ value \in IF cpc = "normalize_dimension" THEN DimValues ELSE {NaN}
    /\ row \in IF cpc = "process_size_base_height" THEN DimRows ELSE {NoRow}
    /\ size_str \in IF cpc = "calculate_area_from_size" THEN AreaSizes ELSE {NaN}
    /\ row2 = NoRow
    /\ result = NotCalled
    /\ result2 = NotCalled

NormalizeDimension ==
    /\ cpc = "normalize_dimension"
    /\ result = NotCalled
    /\ result' = normalize_dimension(value)
    /\ UNCHANGED <<matchVars, pipeVars, cpc, value, size_str, row, row2, result2>>

ProcessSizeBaseHeight ==
    /\ cpc = "process_size_base_height"
    /\ result = NotCalled
    /\ result' = process_size_base_height(row)
    /\ UNCHANGED <<matchVars, pipeVars, cpc, value, size_str, row, row2, result2>>

CalculateAreaFromSize ==
    /\ cpc = "calculate_area_from_size"
    /\ result = NotCalled
    /\ result' \in calculate_area_from_size(size_str)
    /\ UNCHANGED <<matchVars, pipeVars, cpc, value, size_str, row, row2, result2>>

NextDimension ==
    \/ NormalizeDimension
    \/ ProcessSizeBaseHeight
    \/ CalculateAreaFromSize

SpecDimension == InitDimension /\ [][NextDimension]_vars

(***************************************************************************)
(* The date stages of process_files on one record: process_dates, then     *)
(* deal_with_literal_dates.  result is the record after the first stage,   *)
(* result2 the record after the second.                                    *)
(***************************************************************************)
InitDates ==
    /\ MatcherIdle
    /\ PipelineIdle
    /\ cpc = "process_dates"
    /\ value = NaN
    /\ size_str = NaN
    /\ row \in RawDateRows
    /\ row2 = NoRow
    /\ result = NotCalled
    /\ result2 = NotCalled

ProcessDates ==
    /\ cpc = "process_dates"
    /\ result' = process_dates(row)
    /\ cpc' = "deal_with_literal_dates"
    /\ UNCHANGED <<matchVars, pipeVars, value, size_str, row, row2, result2>>

DealWithLiteralDates ==
    /\ cpc = "deal_with_literal_dates"
    /\ result2' = deal_with_literal_dates(result)
    /\ cpc' = "calculate_no_of_months"
    /\ UNCHANGED <<matchVars, pipeVars, value, size_str, row, row2, result>>

NextDates == ProcessDates \/ DealWithLiteralDates

SpecDates == InitDates /\ [][NextDates]_vars

(***************************************************************************)
(* calculate_no_of_months on two records with the same Start.              *)
(***************************************************************************)
InitDuration ==
    /\ MatcherIdle
    /\ PipelineIdle
    /\ cpc = "calculate_no_of_months"
    /\ value = NaN
    /\ size_str = NaN
    /\ row \in {[NoRow EXCEPT !.Start = a, !.End = b] :
                    a \in CanonicalStarts, b \in CanonicalEnds}
    /\ row2 \in {[row EXCEPT !.End = Str(t)] : t \in IsoTexts}
    /\ result = NotCalled
    /\ result2 = NotCalled

CalculateNoOfMonths ==
    /\ cpc = "calculate_no_of_months"
    /\ result = NotCalled
    /\ result' \in calculate_no_of_months(row)
    /\ result2' \in calculate_no_of_months(row2)
    /\ UNCHANGED <<matchVars, pipeVars, cpc, value, size_str, row, row2>>

NextDuration == CalculateNoOfMonths

SpecDuration == InitDuration /\ [][NextDuration]_vars

(***************************************************************************)
(* Properties of score_match.                                              *)
(***************************************************************************)
PriorityRung(txt, p) ==
    LET p_n == normalize_text(p)
    IN  IF txt = p_n THEN 100
        ELSE IF contains_whole_word(txt, p_n) THEN 90
        ELSE IF IsSubstring(p_n, txt) THEN 80
        ELSE 0

KeywordRung(txt, k) ==
    LET k_n == normalize_text(k)
    IN  IF txt = k_n THEN 70
        ELSE IF contains_whole_word(txt, k_n) THEN 60
        ELSE IF IsSubstring(k_n, txt) THEN 40
        ELSE 0

AvoidHit(txt, a) ==
    LET a_n == normalize_text(a)
    IN  contains_whole_word(txt, a_n) \/ IsSubstring(a_n, txt)

RungsReached(txt, prio, kws) ==
    {0} \cup {PriorityRung(txt, prio[i]) : i \in 1..Len(prio)}
        \cup {KeywordRung(txt, kws[i]) : i \in 1..Len(kws)}

\* C1: with no avoid hit, score_match returns the maximum (not the sum) of the
\* rungs reached by the priority terms (100 / 90 / 80) and the keyword terms
\* (70 / 60 / 40); a column whose normalized name equals a normalized priority
\* term scores 100 whatever the keywords contain.
C1_ScoreIsMaxOfRungs ==
    LET txt == normalize_text(col)
    IN  (spc \in {"scored", "rescored"}
           /\ \A i \in 1..Len(avoid) : ~AvoidHit(txt, avoid[i]))
        => /\ score = SetMax(RungsReached(txt, priority, keywords))
           /\ (\E i \in 1..Len(priority) : txt = normalize_text(priority[i]))
                 => score = 100

\* a column equal to a priority term and to a keyword term: both rungs are
\* reached and the result is 100, not 170
C1_Witness ==
    LET txt == normalize_text(col)
    IN  /\ spc = "scored"
        /\ avoid = <<>>
        /\ Len(priority) = 1 /\ PriorityRung(txt, priority[1]) = 100
        /\ Len(keywords) = 1 /\ KeywordRung(txt, keywords[1]) = 70
        /\ score = 100

\* C2: one more avoid term that occurs in the normalized column name (as whole
\* word or substring) lowers the score by exactly 50 against the same inputs
\* without it; hits accumulate without a cap.
C2_AvoidHitSubtractsFifty ==
    (spc = "rescored" /\ AvoidHit(normalize_text(col), extra))
        => score2 = score - 50

\* two avoid hits on a column that reaches no rung: -50, then -100
C2_Witness ==
    /\ spc = "rescored"
    /\ Len(avoid) = 1
    /\ Len(extra) >= 1
    /\ AvoidHit(normalize_text(col), extra)
    /\ IsSubstring(normalize_text(extra), normalize_text(col))
    /\ score = -50
    /\ score2 = -100

(***************************************************************************)
(* Properties of find_best_match.                                          *)
(***************************************************************************)
ScoreOf(c) == score_match(c, keywords, priority, avoid)

PositiveColumns == {i \in 1..Len(columns) : ScoreOf(columns[i]) > 0}

\* C3: candidates with score <= 0 are discarded; (None, []) is returned
\* exactly when no candidate has a positive score; a column with score <= 0
\* is neither the winner nor listed.
C3_NonPositiveDiscarded ==
    spc = "matched" =>
        /\ (best = None /\ ranked = <<>>) <=> (PositiveColumns = {})
        /\ best = None <=> ranked = <<>>
        /\ \A k \in 1..Len(ranked) :
              /\ ranked[k][2] > 0
              /\ ranked[k][2] = ScoreOf(ranked[k][1])
        /\ best # None => ScoreOf(best[1]) > 0
        /\ Len(ranked) = Cardinality(PositiveColumns)
        /\ \A i \in PositiveColumns : \E k \in 1..Len(ranked) : ranked[k][1] = columns[i]

\* a run where one column is kept and another, scoring <= 0, is dropped
C3_Witness ==
    /\ spc = "matched"
    /\ best # None
    /\ \E i \in 1..Len(columns) : ScoreOf(columns[i]) < 0
    /\ \E i \in 1..Len(columns) : ScoreOf(columns[i]) = 0
    /\ Len(ranked) < Len(columns)

\* a run where every column scores <= 0
C3_WitnessNoMatch ==
    /\ spc = "matched"
    /\ Len(columns) >= 2
    /\ best = None

\* position in columns of the winner the sort key prescribes: highest score,
\* then shortest name, then earliest column
PrescribedWinner ==
    CHOOSE i \in PositiveColumns :
        \A j \in PositiveColumns \ {i} :
            \/ ScoreOf(columns[i]) > ScoreOf(columns[j])
            \/ /\ ScoreOf(columns[i]) = ScoreOf(columns[j])
               /\ \/ Len(columns[i]) < Len(columns[j])
                  \/ (Len(columns[i]) = Len(columns[j]) /\ i < j)

\* C4: the result is a function of the inputs: the ranked list is in
\* descending score order, the winner is its head and has the highest score,
\* and among the candidates with the top score the shortest name wins.
C4_RankedDescendingShortestWins ==
    (spc = "matched" /\ best # None) =>
        /\ \A k \in 1..(Len(ranked) - 1) : ranked[k][2] >= ranked[k + 1][2]
        /\ best[1] = ranked[1][1]
        /\ \A i \in 1..Len(columns) : ScoreOf(best[1]) >= ScoreOf(columns[i])
        /\ \A i \in 1..Len(columns) :
              ScoreOf(columns[i]) = ScoreOf(best[1]) => Len(best[1]) <= Len(columns[i])
        /\ best[1] = columns[PrescribedWinner]

\* the top score is shared by a longer column that stands first and a shorter
\* one that stands later: the shorter one wins
C4_Witness ==
    /\ spc = "matched"
    /\ best # None
    /\ \E i, j \in 1..Len(columns) :
          /\ i < j
          /\ ScoreOf(columns[i]) = ScoreOf(columns[j])
          /\ ScoreOf(columns[j]) = ranked[1][2]
          /\ Len(columns[j]) < Len(columns[i])
          /\ best[1] = columns[j]
    /\ \E k \in 1..Len(ranked) : ranked[k][2] < ranked[1][2]

(***************************************************************************)
(* Properties of extract_standardized_dataframe and process_files.         *)
(***************************************************************************)
\* the number of non-empty cells of sheet row r (1-based) of the current file
NonEmptyCells(r) ==
    Cardinality({c \in 1..Len(file_input.cells[r]) : ~IsNa(file_input.cells[r][c].v)})

\* the headerless probe of the current file has succeeded and the header loop is over
HeaderLoopDone ==
    /\ fi >= 1
    /\ file_input.probeOk
    /\ \/ ppc \in {"parse", "links", "build", "fill", "return"}
       \/ ppc = "raised" /\ raised \in {"parse", "links"}

\* extract_standardized_dataframe has run to its last line on the current file
ExtractionComplete == ppc = "return" /\ header_row_index # None

\* C5: the header row is the first sheet row, top to bottom, with at least 9
\* non-empty cells; when no row has 9 non-empty cells no header is found and
\* the file yields an empty table.
C5_HeaderIsFirstRowWithNine ==
    HeaderLoopDone =>
        LET enough == {r \in 1..Len(file_input.cells) : NonEmptyCells(r) >= 9}
        IN  IF enough = {}
            THEN header_row_index = None /\ ppc = "return" /\ extracted = EmptyDF
            ELSE /\ header_row_index # None
                 /\ header_row_index[1] + 1 \in enough
                 /\ \A r \in enough : header_row_index[1] + 1 <= r

\* the third row (index 2) is the first with exactly 9 non-empty cells, below
\* a row with 8
C5_Witness ==
    /\ HeaderLoopDone
    /\ header_row_index = Some(2)
    /\ NonEmptyCells(3) = 9
    /\ NonEmptyCells(2) = 8

\* a sheet without any row of 9 non-empty cells: empty table
C5_WitnessNoHeader ==
    /\ HeaderLoopDone
    /\ header_row_index = None
    /\ \E r \in 1..Len(file_input.cells) : NonEmptyCells(r) = 8
    /\ extracted = EmptyDF

\* file f can be read by every pass and has a header row and a data row
Extractable(f) ==
    /\ f.probeOk /\ f.parseOk /\ f.linksOk
    /\ \E r \in 1..(Len(f.cells) - 1) :
          Cardinality({c \in 1..Len(f.cells[r]) : ~IsNa(f.cells[r][c].v)}) >= 9

\* C6: a file that fails at any pass, or has no header row, contributes an
\* empty result; no exception leaves process_files and the records of every
\* other file of the batch are in the result.
C6_FailureIsIsolated ==
    /\ raised \notin {"parse", "links"}
    /\ ppc = "done" =>
          \A k \in 1..Len(files) :
              Extractable(files[k]) =>
                  \E n \in 1..Len(final_df.idx) :
                      final_df.data[n][ColPos(final_df, SOURCE_FILE)] = Str(files[k].name)

\* C7: a failing hyperlink pass counts as an empty hyperlink map: the
\* extraction of the file goes on and its records are produced.
C7_HyperlinkFailureIsEmptyMap ==
    (/\ fi >= 1
     /\ file_input.probeOk /\ file_input.parseOk /\ ~file_input.linksOk
     /\ header_row_index # None
     /\ ppc \in {"build", "fill", "return", "raised"})
        => /\ ppc # "raised"
           /\ hyperlinks = EmptyMap
           /\ ppc = "return" => Len(extracted.idx) = Len(df.rows)

\* zero-based positions of the candidate columns of a link field
Candidates(headers) ==
    {c \in 0..(Len(df.columns) - 1) : normalize_text(df.columns[c + 1]) \in headers}

\* the candidates with a recorded hyperlink target in data row i (0-based)
LinkedCandidates(headers, i) ==
    {c \in Candidates(headers) : <<header_row_index[1] + 1 + i, c>> \in DOMAIN hyperlinks}

\* the trimmed visible text of candidate c in data row i begins with
\* http://, https:// or www. (in any letter case)
HasUrlText(i, c) ==
    LET val == df.rows[i + 1][c + 1]
    IN  /\ IsStr(val)
        /\ \E prefix \in {HTTP, HTTPS, WWW} : StartsWith(Lower(Strip(val.s)), prefix)

TextCandidates(headers, i) == {c \in Candidates(headers) : HasUrlText(i, c)}

SetMin(S) == CHOOSE x \in S : \A y \in S : x <= y

LinkFields == { <<PHOTO_LINK, HYPERLINK_HEADERS>>, <<TECH_DETAILS, TECH_DETAILS_HEADERS>> }

DataRowIndices == 0..(Len(df.rows) - 1)

\* C8: when a candidate column has a recorded hyperlink in a data row, the
\* link field of that row is the target of the first such candidate, whatever
\* visible text the candidates hold.
C8_HyperlinkMapBeforeText ==
    ExtractionComplete =>
        \A lf \in LinkFields : \A i \in DataRowIndices :
            LET linked == LinkedCandidates(lf[2], i)
            IN  linked # {} =>
                   /\ HasLabel(extracted, i)
                   /\ AtGet(extracted, i, lf[1])
                         = Str(hyperlinks[<<header_row_index[1] + 1 + i, SetMin(linked)>>])

\* a row whose first candidate holds a visible url and whose later candidate
\* has a recorded link: the field is the recorded target
C8_Witness ==
    /\ ExtractionComplete
    /\ \E i \in DataRowIndices :
          LET linked == LinkedCandidates(HYPERLINK_HEADERS, i)
              text   == TextCandidates(HYPERLINK_HEADERS, i)
          IN  /\ linked # {} /\ text # {}
              /\ SetMin(text) < SetMin(linked)
              /\ AtGet(extracted, i, PHOTO_LINK) = Str(Target2)
    /\ \E i \in DataRowIndices :
          /\ Cardinality(LinkedCandidates(HYPERLINK_HEADERS, i)) >= 2
          /\ AtGet(extracted, i, PHOTO_LINK) = Str(Target1)

\* no value: missing or the empty string
IsBlankValue(v) == IsNa(v) \/ v = Str(<<>>)

\* C9: without a recorded hyperlink in the row, the link field is the trimmed
\* text of the first candidate whose text begins with http://, https:// or
\* www., with http:// put before a text that begins with www.; with no such
\* text either, the field stays empty for that row.
C9_VisibleTextFallback ==
    ExtractionComplete =>
        \A lf \in LinkFields : \A i \in DataRowIndices :
            LET text == TextCandidates(lf[2], i)
                t    == Strip(df.rows[i + 1][SetMin(text) + 1].s)
            IN  LinkedCandidates(lf[2], i) = {} =>
                   IF text # {}
                   THEN /\ HasLabel(extracted, i)
                        /\ AtGet(extracted, i, lf[1])
                              = Str(IF StartsWith(Lower(t), WWW) THEN HTTP \o t ELSE t)
                   ELSE HasLabel(extracted, i) => IsBlankValue(AtGet(extracted, i, lf[1]))

\* one row takes the trimmed https text of its second candidate and the
\* prefixed www. text; another row has neither link nor url text
C9_Witness ==
    /\ ExtractionComplete
    /\ hyperlinks = EmptyMap
    /\ \E i \in DataRowIndices :
          /\ AtGet(extracted, i, PHOTO_LINK) = Str(<<"h", "t", "t", "p", "s", ":", "/", "/", "y">>)
          /\ AtGet(extracted, i, TECH_DETAILS) = Str(<<"h", "t", "t", "p", ":", "/", "/", "w", "w", "w", ".", "z">>)
          /\ 0 \in Candidates(HYPERLINK_HEADERS) \ TextCandidates(HYPERLINK_HEADERS, i)
          /\ IsStr(df.rows[i + 1][1])
    /\ \E i \in DataRowIndices :
          /\ TextCandidates(HYPERLINK_HEADERS, i) = {}
          /\ HasLabel(extracted, i)
          /\ IsBlankValue(AtGet(extracted, i, PHOTO_LINK))

\* find_best_match returns no column for the configured field g
Unmatched(g) == find_best_match(df.columns, g.keywords, g.priority, g.avoid)[1] = None

\* C10: every record of the extraction has a value for every configured field
\* and for __source_file, and a configured field without a matching column
\* holds the empty string in every record.
C10_UnmatchedFieldIsEmptyString ==
    ExtractionComplete =>
        /\ HasCol(extracted, SOURCE_FILE)
        /\ \A n \in 1..Len(groups) : HasCol(extracted, groups[n].name)
        /\ \A k \in 1..Len(extracted.idx) :
              /\ extracted.data[k][ColPos(extracted, SOURCE_FILE)] = Str(file_input.name)
              /\ \A n \in 1..Len(groups) :
                    Unmatched(groups[n]) =>
                        extracted.data[k][ColPos(extracted, groups[n].name)] = Str(<<>>)

(***************************************************************************)
(* Properties of the dimension functions.                                  *)
(***************************************************************************)
Returned(fn) == cpc = fn /\ result # NotCalled

\* the places of the x / X separators of a text
SeparatorsOf(s) == {i \in 1..Len(s) : IsSeparator(s[i])}

\* the size of the row is present and splits into exactly two parts
SizeSplits(r) ==
    /\ ~IsNa(r.Size)
    /\ Strip(PyStr(r.Size)) # <<>>
    /\ Cardinality(SeparatorsOf(PyStr(r.Size))) = 1

EndsInM(v) == IsStr(v) /\ v.s # <<>> /\ v.s[Len(v.s)] = "m"

\* the canonical form of one part of a size: normalized, with the unit
FromPart(part) ==
    LET n == normalize_dimension(Str(part))
    IN  IF NonEmpty(n) THEN Str(n.s \o <<"m">>) ELSE PyNone

\* C12: when the size of the row is present and splits on x / X into exactly
\* two parts, Base and Height of the result are computed from the two parts,
\* whatever Base and Height the row supplied, and Size is the size string as
\* it was; Base and Height of every result are absent or end in "m".
C12_SizeTakesPriority ==
    Returned("process_size_base_height") =>
        /\ result.Base = PyNone \/ EndsInM(result.Base)
        /\ result.Height = PyNone \/ EndsInM(result.Height)
        /\ SizeSplits(row) =>
              LET size == PyStr(row.Size)
                  p    == CHOOSE i \in SeparatorsOf(size) : TRUE
              IN  /\ result.Base = FromPart(SubSeq(size, 1, p - 1))
                  /\ result.Height = FromPart(SubSeq(size, p + 1, Len(size)))
                  /\ result.Size = Str(size)

\* size "2.5x3" overrides a supplied base "2": base "2.5m", height "3m"
C12_Witness ==
    /\ Returned("process_size_base_height")
    /\ row.Size = Str(<<"2", ".", "5", "x", "3">>)
    /\ row.Base = Str(<<"2">>)
    /\ result = [Base |-> Str(<<"2", ".", "5", "m">>), Height |-> Str(<<"3", "m">>), Size |-> Str(<<"2", ".", "5", "x", "3">>)]

\* C13: whenever the size of the row does not split into exactly two parts
\* (absent, or present with no or several separators) and base and height
\* are both present, Size of the result is "{base}m x {height}m".
C13_SizeSynthesizedWheneverNoSplit ==
    (/\ Returned("process_size_base_height")
     /\ ~SizeSplits(row)
     /\ NonEmpty(normalize_dimension(row.Base))
     /\ NonEmpty(normalize_dimension(row.Height)))
        => result.Size = Str(SizeOf(normalize_dimension(row.Base),
                                    normalize_dimension(row.Height)))

\* a text lower-cased and trimmed, commas turned into periods, a closing
\* unit marker "m" taken off with the whitespace before it
TrailingMarkerStripped(s) ==
    LET t == ReplaceChar(Lower(Strip(s)), ",", ".")
    IN  IF t # <<>> /\ t[Len(t)] = "m" THEN RStrip(SubSeq(t, 1, Len(t) - 1)) ELSE t

\* C14: normalize_dimension returns None for a blank or missing value, and
\* for any other value its text lower-cased and trimmed, commas turned into
\* periods, with only a closing "m" stripped and every other character kept.
C14_OnlyTrailingMarkerStripped ==
    Returned("normalize_dimension") =>
        result = IF IsNa(value) \/ Strip(PyStr(value)) = <<>>
                 THEN PyNone
                 ELSE Str(TrailingMarkerStripped(PyStr(value)))

\* the float a result stands for is within half a hundredth of num / den
\* and has at most two decimals
IsRounded(v, num, den) ==
    /\ v.t = "num"
    /\ LET f == FloatOf(v.s)
           d == f.num * den - num * Pow10(f.scale)
       IN  /\ f.scale <= 2
           /\ 200 * (IF d < 0 THEN 0 - d ELSE d) <= den * Pow10(f.scale)

C15_WitnessRoundedUp ==
    /\ Returned("calculate_area_from_size")
    /\ size_str = Str(<<".", "2", "5", "x", ".", "5", "5">>)
    /\ result = Num(<<"0", ".", "1", "4">>)

(***************************************************************************)
(* Properties of the date functions.                                       *)
(***************************************************************************)
\* both date stages have run on the record
DateStagesDone == cpc = "calculate_no_of_months" /\ result2 # NotCalled

\* the text holds the marker phrase followed by two dd/mm/yy dates
HasMarkerPair(v) == ~IsNa(v) /\ DisponibilSearch(PyStr(v)) # <<>>

\* the same value, a missing one being the same as any other missing one
SameValue(a, b) == a = b \/ (IsNa(a) /\ IsNa(b))

\* C16: a record whose Start after the safe parse does not hold the marker
\* phrase followed by two dd/mm/yy dates, a record whose Start is missing
\* included, leaves deal_with_literal_dates with the Start and the End it
\* had after the safe parse.
C16_NoMarkerPassesThrough ==
    (DateStagesDone /\ ~HasMarkerPair(result.Start)) =>
        /\ SameValue(result2.Start, result.Start)
        /\ SameValue(result2.End, result.End)

\* the days from a fixed day to the date, counting every month as 31 days:
\* it orders the dates
DayKey(dt) == 31 * (12 * dt.y + dt.m) + dt.d

\* the whole calendar months strictly between the months of two dates
MonthsBetween(a, b) ==
    Cardinality({k \in (12 * a.y + a.m)..(12 * b.y + b.m) :
                    12 * a.y + a.m < k /\ k < 12 * b.y + b.m})

\* C17: calculate_no_of_months returns None when Start or End has no date
\* or Start is after End; otherwise it returns, rounded to two decimals,
\* (days of the start month from the start day on / days of the start
\* month) + (whole months strictly between the two months) + (end day /
\* days of the end month).  It always returns.
C17_DurationFormula ==
    (cpc = "calculate_no_of_months" /\ result # NotCalled /\ row2 # NoRow) =>
        LET s == to_datetime(row.Start, FALSE)
            e == to_datetime(row.End, FALSE)
        IN  IF s = None \/ e = None THEN result = PyNone
            ELSE IF DayKey(s[1]) > DayKey(e[1]) THEN result = PyNone
            ELSE LET ds == monthrange(s[1].y, s[1].m)
                     de == monthrange(e[1].y, e[1].m)
                 IN  IsRounded(result,
                               (ds - s[1].d + 1) * de
                                   + MonthsBetween(s[1], e[1]) * ds * de
                                   + e[1].d * ds,
                               ds * de)

\* 2023-12-15 to 2024-02-29: 17/31 + 1 + 29/29 = 2.55
C17_Witness ==
    /\ cpc = "calculate_no_of_months"
    /\ row.Start = Str(<<"2", "0", "2", "3", "-", "1", "2", "-", "1", "5">>)
    /\ row.End = Str(<<"2", "0", "2", "4", "-", "0", "2", "-", "2", "9">>)
    /\ result = Num(<<"2", ".", "5", "5">>)

\* Start after End gives None
C17_WitnessNone ==
    /\ cpc = "calculate_no_of_months"
    /\ row.Start = Str(<<"2", "0", "2", "4", "-", "0", "2", "-", "2", "9">>)
    /\ row.End = Str(<<"2", "0", "2", "4", "-", "0", "2", "-", "1", "5">>)
    /\ result = PyNone

IsJanToMarch ==
    /\ cpc = "calculate_no_of_months"
    /\ result # NotCalled
    /\ row.Start = Str(<<"2", "0", "2", "4", "-", "0", "1", "-", "1", "5">>)
    /\ row.End = Str(<<"2", "0", "2", "4", "-", "0", "3", "-", "1", "0">>)

\* C18 as stated: for Start 2024-01-15 and End 2024-03-10 the function
\* returns 0.87, the rounded sum of 17/31 and 10/31 with no whole month.
C18_JanToMarchIsZero87 ==
    IsJanToMarch => result = Num(<<"0", ".", "8", "7">>)

\* C18 as amended: for Start 2024-01-15 and End 2024-03-10 the function
\* counts one whole month, February, and returns 1.87, the rounded sum of
\* 17/31, 1 and 10/31.
C18_JanToMarchIsOne87 ==
    IsJanToMarch => result = Num(<<"1", ".", "8", "7">>)

C18_Witness == IsJanToMarch /\ result = Num(<<"1", ".", "8", "7">>)

\* the hundredths of a returned duration
Hundredths(v) == LET f == FloatOf(v.s) IN f.num * Pow10(2 - f.scale)

\* C19: for one Start and two End dates E1 <= E2, both on or after Start,
\* the duration for E1 is at most the duration for E2.
C19_DurationMonotonic ==
    (cpc = "calculate_no_of_months" /\ result # NotCalled /\ row2 # NoRow) =>
        LET s  == to_datetime(row.Start, FALSE)
            e1 == to_datetime(row.End, FALSE)
            e2 == to_datetime(row2.End, FALSE)
        IN  (/\ s # None /\ e1 # None /\ e2 # None
             /\ DayKey(s[1]) <= DayKey(e1[1])
             /\ DayKey(e1[1]) <= DayKey(e2[1]))
                => Hundredths(result) <= Hundredths(result2)

(***************************************************************************)
(* Properties of the merge of process_files.                               *)
(***************************************************************************)
\* the merged records, before any pruning
Merged == Concat(all_data)

\* a cell that holds nothing, or only whitespace
IsBlankCell(v) == IsNa(v) \/ (IsStr(v) /\ \A i \in 1..Len(v.s) : IsSpace(v.s[i]))

\* record k of the merged records has a non-blank field besides the provenance
HasContent(k) ==
    \E j \in 1..Len(Merged.cols) :
        Merged.cols[j] # SOURCE_FILE /\ ~IsBlankCell(Merged.data[k][j])

\* the record with that label is in the final table
InFinal(label) == \E n \in 1..Len(final_df.idx) : final_df.idx[n] = label

\* C11: when process_files has returned, a merged record whose every field
\* except the provenance is blank or whitespace-only is not in the final
\* table, and every record with a non-blank field besides the provenance is.
C11_BlankRecordsPruned ==
    (ppc = "done" /\ all_data # <<>>) =>
        /\ \A k \in 1..Len(Merged.idx) : InFinal(Merged.idx[k]) <=> HasContent(k)
        /\ \A n \in 1..Len(final_df.idx) :
              \E k \in 1..Len(Merged.idx) : Merged.idx[k] = final_df.idx[n]

\* a record with a whitespace-only field and nothing else was pruned, and
\* another record was kept
C11_Witness ==
    /\ ppc = "done"
    /\ all_data # <<>>
    /\ \E k \in 1..Len(Merged.idx) :
          /\ ~InFinal(Merged.idx[k])
          /\ \E j \in 1..Len(Merged.cols) :
                IsStr(Merged.data[k][j]) /\ Merged.data[k][j].s = <<" ">>
    /\ \E k \in 1..Len(Merged.idx) : InFinal(Merged.idx[k])

\* the provenance of every record of a frame is the name
AllFrom(d, name) ==
    \A k \in 1..Len(d.idx) : d.data[k][ColPos(d, SOURCE_FILE)] = Str(name)

Ascending(s) == \A n, m \in 1..Len(s) : n < m => s[n] < s[m]

\* the number of the frame that holds the merged record with that label
RECURSIVE FrameOf(_, _)
FrameOf(frames, label) ==
    IF label < Len(frames[1].idx) THEN 1
    ELSE 1 + FrameOf(Tail(frames), label - Len(frames[1].idx))

\* the source-row label of the merged record with that label
RECURSIVE SourceRowOf(_, _)
SourceRowOf(frames, label) ==
    IF label < Len(frames[1].idx) THEN frames[1].idx[label + 1]
    ELSE SourceRowOf(Tail(frames), label - Len(frames[1].idx))

\* the records of the table are in the order of the frames, those of one
\* frame in the order of their source rows, each with the provenance and the
\* source row of the frame it comes from
InInputOrder(t, frames) ==
    /\ \A n \in 1..Len(t.idx) :
          /\ t.idx[n] >= 0
          /\ t.idx[n] < Len(ConcatRows(frames, <<>>))
          /\ AllFrom(FilterRows(t, <<n>>),
                     frames[FrameOf(frames, t.idx[n])].data[1][ColPos(frames[1], SOURCE_FILE)].s)
    /\ \A n, m \in 1..Len(t.idx) :
          n < m =>
             \/ FrameOf(frames, t.idx[n]) < FrameOf(frames, t.idx[m])
             \/ /\ FrameOf(frames, t.idx[n]) = FrameOf(frames, t.idx[m])
                /\ SourceRowOf(frames, t.idx[n]) < SourceRowOf(frames, t.idx[m])

\* C20: the files are taken one at a time in input order; the accumulated
\* list changes only by appending the non-empty extraction of the file the
\* loop is at; and in the table process_files returns the records are in
\* input order of their files, the records of one file in source row order.
C20_InputOrderKept ==
    [][/\ fi' = fi \/ fi' = fi + 1
       /\ all_data' # all_data =>
             /\ ppc = "return"
             /\ ~IsEmptyDF(extracted)
             /\ AllFrom(extracted, files[fi].name)
             /\ Ascending(extracted.idx)
             /\ all_data' = Append(all_data, extracted)
       /\ (ppc = "return" /\ IsEmptyDF(extracted)) => all_data' = all_data
       /\ (ppc' = "done" /\ all_data' # <<>>) => InInputOrder(final_df', all_data')]_vars

\* two files with different names both have records in the final table, the
\* first file's first
C20_Witness ==
    /\ ppc = "done"
    /\ Len(files) = 2
    /\ files[1].name # files[2].name
    /\ Len(all_data) = 2
    /\ \E n, m \in 1..Len(final_df.idx) :
          /\ n < m
          /\ final_df.data[n][ColPos(final_df, SOURCE_FILE)] = Str(files[1].name)
          /\ final_df.data[m][ColPos(final_df, SOURCE_FILE)] = Str(files[2].name)

\* a file with an empty extraction stands before a file whose records are
\* in the final table
C20_WitnessSkipped ==
    /\ ppc = "done"
    /\ Len(files) = 2
    /\ Len(all_data) = 1
    /\ Len(final_df.idx) > 0
    /\ AllFrom(final_df, files[2].name)

(***************************************************************************)
(* Properties of the columns of the table process_files returns.           *)
(***************************************************************************)
\* the configured field names, in the iteration order of self.groups
ConfigNames == [k \in 1..Len(groups) |-> groups[k].name]

\* the fields process_files derives
DerivedFields == {BASE, HEIGHT, SIZE, GPS, NO_OF_MONTHS, NUME_FURNIZOR, FORMAT}

\* process_files has returned a table built from at least one extraction
ReturnedTable == ppc = "done" /\ all_data # <<>>

\* C21: the columns of the table process_files returns are the configured
\* field names in iteration order, then the provenance field, then derived
\* fields only: the first column is the first configured field and every
\* configured field, Photo Link and Tech Details included, stands at its
\* configured position.
C21_ColumnOrderFollowsConfiguration ==
    ReturnedTable =>
        /\ Len(final_df.cols) > Len(groups)
        /\ SubSeq(final_df.cols, 1, Len(groups)) = ConfigNames
        /\ final_df.cols[Len(groups) + 1] = SOURCE_FILE
        /\ \A j \in (Len(groups) + 2)..Len(final_df.cols) :
              final_df.cols[j] \in DerivedFields

(***************************************************************************)
(* Properties of the passes over one input stream.                         *)
(***************************************************************************)
\* the reads the current call has made or started, in order
Reads ==
    LET IsRead(o) == o.op # "seek"
    IN  SelectSeq(stream.ops, IsRead)

IsProbe(o) == o.op = "read_excel" /\ o.header = None

IsHeaderParse(o) == o.op = "read_excel" /\ o.header # None

IsHyperlinkPass(o) == o.op = "load_workbook"

\* the probe raises, or the header loop finds no row
NoHeaderFound(f) == ~f.probeOk \/ LocateHeaderFrom(ReadRaw(f), 0) = None

\* C22: on a seekable stream the reads of one call of
\* extract_standardized_dataframe are, in this order, the headerless probe,
\* the header-aware parse and the hyperlink pass; the operation right before
\* each read is a rewind, so each read starts at the start of the stream;
\* read_excel is called at most twice; when the probe fails or finds no
\* header row the probe is the only read, and a call that returns a
\* non-empty extraction has made all three.
C22_PassesInOrderEachAfterRewind ==
    (fi >= 1 /\ file_input.seekable) =>
        /\ Len(Reads) <= 3
        /\ Len(Reads) >= 1 => IsProbe(Reads[1])
        /\ Len(Reads) >= 2 => IsHeaderParse(Reads[2])
        /\ Len(Reads) >= 3 => IsHyperlinkPass(Reads[3])
        /\ \A i \in 1..Len(stream.ops) :
              stream.ops[i].op # "seek" =>
                 /\ i > 1
                 /\ stream.ops[i - 1].op = "seek"
                 /\ stream.ops[i].at = "start"
        /\ Cardinality({i \in 1..Len(stream.ops) : stream.ops[i].op = "read_excel"}) <= 2
        /\ (ppc # "probe" /\ NoHeaderFound(file_input)) => Len(Reads) = 1
        /\ (ppc = "return" /\ ~NoHeaderFound(file_input)) => Len(Reads) = 3

\* a stream handed over past its start has gone through the three passes
C22_Witness ==
    /\ ppc = "return"
    /\ file_input.seekable
    /\ stream.ops[1].at = "moved"
    /\ Len(Reads) = 3
    /\ ~IsEmptyDF(extracted)

\* a stream without a header row: the call has returned after the probe
C22_WitnessNoHeader ==
    /\ ppc = "return"
    /\ file_input.seekable
    /\ file_input.probeOk
    /\ header_row_index = None
    /\ Len(Reads) = 1

(***************************************************************************)
(* Properties of the hyperlink map.                                        *)
(***************************************************************************)
\* the cell of the current sheet at the zero-based row r and column c
SheetCell(r, c) == file_input.cells[r + 1][c + 1]

SheetRows == 0..(Len(file_input.cells) - 1)

SheetColumns == 0..(GridWidth(file_input) - 1)

\* the cell has a native hyperlink with a target
HasNativeTarget(cell) == cell.link # None /\ cell.link[1] # <<>>

\* the url of a cell whose content is a string with a =HYPERLINK("url" formula
FormulaUrl(cell) ==
    IF IsStr(cell.raw) THEN HYPERLINK_FORMULA_RE_match(cell.raw.s) ELSE None

\* the cell has a url of either kind
HasSheetUrl(r, c) == HasNativeTarget(SheetCell(r, c)) \/ FormulaUrl(SheetCell(r, c)) # None

\* the native target if there is one, the url of the formula otherwise
SheetUrl(r, c) ==
    IF HasNativeTarget(SheetCell(r, c)) THEN SheetCell(r, c).link[1]
    ELSE FormulaUrl(SheetCell(r, c))[1]

\* _extract_hyperlinks has returned the map of the current sheet
LinksExtracted ==
    /\ fi >= 1
    /\ header_row_index # None
    /\ ppc \in {"build", "fill", "return"}

RowMajorBefore(p, q) == p[1] < q[1] \/ (p[1] = q[1] /\ p[2] < q[2])

\* the candidates of a link field whose sheet cell, in the sheet row of data
\* row i, has a url
SheetLinked(headers, i) ==
    {c \in Candidates(headers) : HasSheetUrl(header_row_index[1] + 1 + i, c)}

\* C23: the map has a key for exactly the cells of the whole sheet that have
\* a native hyperlink target or a =HYPERLINK("url" formula, under the
\* zero-based (row, column) of the cell; the value is the native target when
\* there is one, also for a formula cell, and the url of the formula
\* otherwise; the keys were inserted in row-major order.  Data row i of the
\* header-aware table is the sheet row header_row_index + 1 + i and a
\* candidate column is the sheet column at its position, so the link field
\* of the row is the url of the first candidate whose sheet cell has one.
C23_MapCoversSheetAtSheetCoordinates ==
    LinksExtracted =>
        /\ \A r \in SheetRows : \A c \in SheetColumns :
              IF HasSheetUrl(r, c)
              THEN /\ <<r, c>> \in DOMAIN hyperlinks
                   /\ hyperlinks[<<r, c>>] = SheetUrl(r, c)
              ELSE <<r, c>> \notin DOMAIN hyperlinks
        /\ DOMAIN hyperlinks \subseteq SheetRows \X SheetColumns
        /\ {link_order[n] : n \in 1..Len(link_order)} = DOMAIN hyperlinks
        /\ \A n, m \in 1..Len(link_order) :
              n < m => RowMajorBefore(link_order[n], link_order[m])
        /\ ExtractionComplete =>
              \A lf \in LinkFields : \A i \in DataRowIndices :
                  /\ \A c \in Candidates(lf[2]) :
                        df.rows[i + 1][c + 1] = SheetCell(header_row_index[1] + 1 + i, c).v
                  /\ SheetLinked(lf[2], i) # {} =>
                        /\ HasLabel(extracted, i)
                        /\ AtGet(extracted, i, lf[1])
                              = Str(SheetUrl(header_row_index[1] + 1 + i,
                                             SetMin(SheetLinked(lf[2], i))))

\* a formula cell with a native target gave the target to Photo Link, a
\* formula cell with a targetless hyperlink has the url of its formula, and
\* the map has keys above the header row, in it, and below the last row of
\* the table
C23_Witness ==
    /\ ExtractionComplete
    /\ \E i \in DataRowIndices : \E c \in Candidates(HYPERLINK_HEADERS) :
          LET cell == SheetCell(header_row_index[1] + 1 + i, c)
          IN  /\ HasNativeTarget(cell)
              /\ FormulaUrl(cell) # None
              /\ FormulaUrl(cell) # cell.link
              /\ AtGet(extracted, i, PHOTO_LINK) = Str(cell.link[1])
    /\ \E p \in DOMAIN hyperlinks :
          /\ SheetCell(p[1], p[2]).link = Some(<<>>)
          /\ hyperlinks[p] = <<"t", "3">>
    /\ \E p \in DOMAIN hyperlinks : p[1] < header_row_index[1]
    /\ \E p \in DOMAIN hyperlinks : p[1] = header_row_index[1]
    /\ \E p \in DOMAIN hyperlinks : p[1] > header_row_index[1] + Len(df.rows)
    /\ Len(link_order) >= 5

====
